---- MODULE Spec2Model ----
(***************************************************************************)
(* Model of site/assets/template/run_analysis.py: the batch pipeline that  *)
(* normalises the loaded tables, resolves each patient's baseline anchor,  *)
(* builds the visit timeline and derives the 12-month outcomes, the        *)
(* eGFR-decline and IgAN remission endpoints, the KFRE scores and the eGFR *)
(* slopes; and of site/assets/template/merge_centers.py, which merges the  *)
(* exports of the centers into the directory that run_analysis.py reads.   *)
(* Each group of computations has a specification of its own, over inputs  *)
(* chosen for it; SpecRun is merge_all followed by run_analysis.           *)
(*                                                                         *)
(* Representation.  A table is a sequence of rows, a row is a record.      *)
(* Floats are fixed-point integers in units of 1/FP.  Dates are day        *)
(* numbers counted from EpochYear-01-01.  A raw date cell is the integer   *)
(* yyyymmdd of its text.  A missing cell (np.nan / pd.NaT) of a numeric or *)
(* date column is the integer NaN; in a text column it is the string       *)
(* "nan" (what str() makes of it) and a Python None is the string "None".  *)
(***************************************************************************)
EXTENDS Integers, Sequences, FiniteSets, TLC

VARIABLES
    patients,        \* the patients table (raw, then typed, then with derived columns)
    visits,          \* the visits table (raw, then typed)
    v2,              \* the timeline: dated visits joined to their patient's anchor
    egfr_endpoints,  \* result of compute_egfr_decline_endpoints(v2)
    remission,       \* result of compute_igan_remission(v2)
    pc,              \* position of the script
    kfre_args,       \* the arguments of a call of kfre_4var / kfre_8var
    kfre_out,        \* what the two calls returned
    labs,            \* the labs table (raw, then typed)
    HAS_STATSMODELS, \* whether the import of statsmodels succeeded
    fit_raises,      \* whether model.fit raises on this timeline
    slope_results,   \* the population (mixed-effects) slope rows
    per_patient_slopes, \* the per-patient OLS slope rows
    slope_files,     \* the slope files written
    center_dirs,     \* the center directories given to merge_all, in order
    cdir,            \* index of the next center directory to scan
    raw,             \* per table, the frames accepted so far
    merged,          \* per table, the merged frame
    qc_warnings,     \* the Warnings sheet
    qc_center_summary, \* the CenterSummary sheet
    qc_duplicates,   \* the Duplicates sheet
    qc_collisions,   \* the PatientCollisions sheet
    written,         \* the merged CSV files written, with their text rows
    previous,        \* the files written by the previous run of merge_all
    error,           \* the exception that ended run_analysis, "" while there is none
    events,          \* the events table of run_analysis
    outcomes         \* the 12-month outcome table

vars ==
    <<patients, visits, v2, egfr_endpoints, remission, pc, kfre_args, kfre_out, labs,
      HAS_STATSMODELS, fit_raises, slope_results, per_patient_slopes, slope_files,
      center_dirs, cdir, raw, merged, qc_warnings, qc_center_summary, qc_duplicates,
      qc_collisions, written, previous, error, events, outcomes>>

\* the state of the pipeline tables, and the state outside them
tables == <<patients, visits, v2, egfr_endpoints, remission>>
kfre == <<kfre_args, kfre_out>>
slopes == <<HAS_STATSMODELS, fit_raises, slope_results, per_patient_slopes, slope_files>>
merge ==
    <<center_dirs, cdir, raw, merged, qc_warnings, qc_center_summary, qc_duplicates,
      qc_collisions, written, previous>>
run == <<error, events, outcomes>>
others == <<kfre, labs, slopes, merge, run>>

-----------------------------------------------------------------------------
(* Cell values *)

NaN == -999999
NaT == NaN
BadText == -888888
\* Python's None in a numeric argument, and float("inf")
PyNone == -777777
PosInf == 999999
StrNaN == "nan"
StrNone == "None"
FP == 1000
Q == 10000
EpochYear == 2020

Min(S) == CHOOSE x \in S : \A y \in S : x <= y
Abs(x) == IF x < 0 THEN -x ELSE x
\* division rounded to nearest, b > 0
RDiv(a, b) == (2 * a + b) \div (2 * b)

isna(x) == x = NaN

\* str(x).upper() on the text values that occur
Upper(s) ==
    CASE s = "f" -> "F"
      [] s = "m" -> "M"
      [] s = "igan" -> "IGAN"
      [] s = "IgAN" -> "IGAN"
      [] s = "ln" -> "LN"
      [] s = "nan" -> "NAN"
      [] s = "None" -> "NONE"
      [] OTHER -> s

-----------------------------------------------------------------------------
(* Dates: pd.to_datetime(errors="coerce"), Timestamp.year *)

IsLeap(y) == (y % 4 = 0 /\ y % 100 # 0) \/ y % 400 = 0
DaysInYear(y) == IF IsLeap(y) THEN 366 ELSE 365
DaysInMonth(y, m) ==
    IF m = 2 THEN (IF IsLeap(y) THEN 29 ELSE 28)
    ELSE IF m \in {4, 6, 9, 11} THEN 30 ELSE 31

RECURSIVE DaysBeforeYear(_)
DaysBeforeYear(y) ==
    IF y <= EpochYear THEN 0 ELSE DaysBeforeYear(y - 1) + DaysInYear(y - 1)

RECURSIVE DaysBeforeMonth(_, _)
DaysBeforeMonth(y, m) ==
    IF m <= 1 THEN 0 ELSE DaysBeforeMonth(y, m - 1) + DaysInMonth(y, m - 1)

to_dt(s) ==
    IF s = NaN \/ s = BadText THEN NaT
    ELSE LET y == s \div 10000
             m == (s \div 100) % 100
             d == s % 100
         IN  IF y < EpochYear \/ m \notin 1..12 \/ d < 1 \/ d > DaysInMonth(y, m)
             THEN NaT
             ELSE DaysBeforeYear(y) + DaysBeforeMonth(y, m) + (d - 1)

RECURSIVE YearFrom(_, _)
YearFrom(y, n) == IF n < DaysInYear(y) THEN y ELSE YearFrom(y + 1, n - DaysInYear(y))
\* pd.Timestamp(bd).year
YearOf(dn) == YearFrom(EpochYear, dn)

to_num(s) == IF s = NaN \/ s = BadText THEN NaN ELSE s * FP

-----------------------------------------------------------------------------
(* Real powers in fixed point (units of 1/Q), for ckdepi2021 *)

Ln2Q == 6931

RECURSIVE AtanhSeries(_, _, _)
\* sum over odd k of y^k / k, from the term p = y^k on, n terms left
AtanhSeries(p, ySq, k) ==
    IF k > 15 \/ p = 0 THEN 0
    ELSE RDiv(p, k) + AtanhSeries(RDiv(p * ySq, Q), ySq, k + 2)

RECURSIVE LnQ(_)
LnQ(x) ==
    IF x > 2 * Q THEN LnQ(RDiv(x, 2)) + Ln2Q
    ELSE IF 2 * x < Q THEN LnQ(2 * x) - Ln2Q
    ELSE LET y == RDiv((x - Q) * Q, x + Q)
             ySq == RDiv(y * y, Q)
         IN  2 * AtanhSeries(y, ySq, 1)

RECURSIVE ExpSeries(_, _, _)
ExpSeries(term, z, n) ==
    IF n > 12 \/ term = 0 THEN 0
    ELSE term + ExpSeries(RDiv(term * z, Q * n), z, n + 1)

RECURSIVE ExpQ(_)
ExpQ(z) ==
    IF Abs(z) > Q \div 2
    THEN LET h == ExpQ(RDiv(z, 2)) IN RDiv(h * h, Q)
    ELSE ExpSeries(Q, z, 1)

\* x ** a, x > 0 and a in units of 1/Q
PowQ(x, a) == ExpQ(RDiv(a * LnQ(x), Q))

-----------------------------------------------------------------------------
(* ckdepi2021(scr_mg_dl, age, sex): scr_mg_dl in units of 1/Q, age an     *)
(* integer, sex a text cell; the result is in units of 1/FP, NaN for None. *)

ckdepi2021(scr_mg_dl, age, sex) ==
    IF scr_mg_dl = NaN \/ age = NaN \/ sex = StrNone THEN NaN
    ELSE LET sx == Upper(sex)
             is_f == sx = "F"
             k10 == IF is_f THEN 7 ELSE 9
             alpha == IF is_f THEN -2410 ELSE -3020
             ratio == RDiv(scr_mg_dl * 10, k10)
             mn == IF ratio < Q THEN ratio ELSE Q
             mx == IF ratio > Q THEN ratio ELSE Q
             t1 == RDiv(PowQ(mn, alpha) * PowQ(mx, -12000), Q)
             t2 == RDiv(t1 * PowQ(9938, age * Q), Q)
             egfr == RDiv(142 * t2 * FP, Q)
         IN  IF is_f THEN RDiv(egfr * 1012, 1000) ELSE egfr

-----------------------------------------------------------------------------
(* Real arithmetic in fixed point, units of 1/U, for the KFRE.  Products   *)
(* are formed by thousands so that none exceeds 32 bits; results agree     *)
(* with math.log / math.exp to about 1e-5 relative.                        *)

U == 1000000

\* a * b, both in units of 1/U
MulU(a, b) ==
    LET ah == Abs(a) \div 1000
        al == Abs(a) % 1000
        bh == Abs(b) \div 1000
        bl == Abs(b) % 1000
        m == ah * bh + RDiv(ah * bl + al * bh + RDiv(al * bl, 1000), 1000)
    IN  IF (a < 0) = (b < 0) THEN m ELSE -m

RECURSIVE LongDiv(_, _, _)
\* floor(a * 100^k / b) for b > 0 and k <= 3, digit pair by digit pair
LongDiv(a, b, k) ==
    IF k = 0 THEN a \div b
    ELSE (a \div b) * (IF k = 3 THEN 1000000 ELSE IF k = 2 THEN 10000 ELSE 100)
         + LongDiv((a % b) * 100, b, k - 1)

RECURSIVE AtanhU(_, _, _)
AtanhU(p, ySq, k) ==
    IF k > 25 \/ p = 0 THEN 0
    ELSE RDiv(p, k) + AtanhU(MulU(p, ySq), ySq, k + 2)

Ln2U == 693147

RECURSIVE LnU(_)
\* math.log(x), x > 0
LnU(x) ==
    IF x > 2 * U THEN LnU(RDiv(x, 2)) + Ln2U
    ELSE IF 2 * x < U THEN LnU(2 * x) - Ln2U
    ELSE LET y == LongDiv(x - U, x + U, 3)
         IN  2 * AtanhU(y, MulU(y, y), 1)

RECURSIVE ExpSeriesU(_, _, _)
ExpSeriesU(term, z, n) ==
    IF n > 14 \/ term = 0 THEN 0
    ELSE term + ExpSeriesU(RDiv(MulU(term, z), n), z, n + 1)

RECURSIVE ExpU(_)
\* math.exp(z), z <= LpCap
ExpU(z) ==
    IF Abs(z) > U \div 2
    THEN LET h == ExpU(RDiv(z, 2)) IN MulU(h, h)
    ELSE ExpSeriesU(U, z, 1)

-----------------------------------------------------------------------------
(* KFRE: kfre_4var, kfre_8var.  age is in years; eGFR, UPCR and the four   *)
(* lab values are in units of 1/FP; sex is a text cell.  A risk is in      *)
(* units of 1/R5 (five decimal places); (None, None) is NoRisk.            *)

R5 == 100000
NoRisk == <<PyNone, PyNone>>

_KFRE4_S0_2YR == 983200
_KFRE4_S0_5YR == 936500
_KFRE8_S0_2YR == 983200
_KFRE8_S0_5YR == 924000

\* exp(lp) beyond e^7 leaves s0 ** exp_lp below 1e-8 for each s0 above, so
\* that both risks round to 1.0 as they do at the cap
LpCap == 7000000

\* round(p, 5) of p in units of 1/U
round5(p) == RDiv(p, U \div R5)

\* variant: the two horizons change places
_kfre_risk_swapped(lp, s0_2yr, s0_5yr) ==
    LET exp_lp == ExpU(IF lp > LpCap THEN LpCap ELSE lp)
        p2 == U - ExpU(MulU(exp_lp, LnU(s0_2yr)))
        p5 == U - ExpU(MulU(exp_lp, LnU(s0_5yr)))
    IN  <<round5(p5), round5(p2)>>

\* s0 ** exp_lp is exp(exp_lp * log(s0))
_kfre_risk(lp, s0_2yr, s0_5yr) ==
    LET exp_lp == ExpU(IF lp > LpCap THEN LpCap ELSE lp)
        p2 == U - ExpU(MulU(exp_lp, LnU(s0_2yr)))
        p5 == U - ExpU(MulU(exp_lp, LnU(s0_5yr)))
    IN  <<round5(p2), round5(p5)>>

\* float(x) raises on text that is not a number
float_raises(x) == x = BadText

isfinite(x) == x # NaN /\ x # PosInf

\* math.log2(u), u in units of 1/FP: (log(u * FP / U) + log(U / FP)) / log(2)
log2(u) == MulU(LnU(u) + 6907755, 1442695)

\* the linear predictor of the four variables, in units of 1/U
kfre_lp4(a, sex, e, u) ==
    LET female == IF Upper(sex) = "F" THEN 1 ELSE 0
    IN  RDiv(2201 * (a * 100 - 7036), 10)
        + RDiv(2467 * (female * 10000 - 5642), 100)
        + RDiv(-5567 * (e - 36110), 50)
        + MulU(451000, log2(u) - 5137000)

\* the four extra terms of the eight-variable equation
kfre_lp_extra(alb, phos, bicarb, ca) ==
    RDiv(-3369 * (alb - 3997), 10)
    + RDiv(4681 * (phos - 3916), 10)
    + RDiv(-2170 * (bicarb - 25570), 10)
    + RDiv(-4573 * (ca - 9355), 10)

kfre_4var(age, sex, egfr, upcr_mg_g) ==
    IF sex = StrNone \/ \E v \in {age, egfr, upcr_mg_g} : v = PyNone THEN NoRisk
    ELSE IF \E v \in {age, egfr, upcr_mg_g} : float_raises(v) THEN NoRisk
    ELSE IF \E v \in {age, egfr, upcr_mg_g} : ~isfinite(v) THEN NoRisk
    ELSE IF egfr <= 0 \/ upcr_mg_g <= 0 \/ age <= 0 THEN NoRisk
    ELSE _kfre_risk(kfre_lp4(age, sex, egfr, upcr_mg_g), _KFRE4_S0_2YR, _KFRE4_S0_5YR)

kfre_8var(age, sex, egfr, upcr_mg_g, albumin_g_dl, phosphate_mg_dl, bicarbonate_mmol_l, calcium_mg_dl) ==
    LET extras == {albumin_g_dl, phosphate_mg_dl, bicarbonate_mmol_l, calcium_mg_dl}
        vals == {age, egfr, upcr_mg_g} \cup extras
    IN  IF sex = StrNone \/ \E v \in vals : v = PyNone THEN NoRisk
        ELSE IF \E v \in vals : float_raises(v) THEN NoRisk
        ELSE IF (\E v \in vals : ~isfinite(v))
                \/ egfr <= 0 \/ upcr_mg_g <= 0 \/ age <= 0 THEN NoRisk
        ELSE _kfre_risk(kfre_lp4(age, sex, egfr, upcr_mg_g)
                            + kfre_lp_extra(albumin_g_dl, phosphate_mg_dl,
                                            bicarbonate_mmol_l, calcium_mg_dl),
                        _KFRE8_S0_2YR, _KFRE8_S0_5YR)

\* the script's two calls per row: _apply_kfre4, then _apply_kfre8
ApplyKfre4 ==
    /\ pc = "kfre_args"
    /\ kfre_out' = [kfre4 |-> kfre_4var(kfre_args.age, kfre_args.sex, kfre_args.egfr,
                                        kfre_args.upcr),
                    kfre8 |-> NoRisk]
    /\ pc' = "kfre4"
    /\ UNCHANGED <<tables, kfre_args, labs, slopes, merge, run>>

ApplyKfre8 ==
    /\ pc = "kfre4"
    /\ kfre_out' = [kfre_out EXCEPT !.kfre8 =
                       kfre_8var(kfre_args.age, kfre_args.sex, kfre_args.egfr,
                                 kfre_args.upcr, kfre_args.albumin, kfre_args.phosphate,
                                 kfre_args.bicarbonate, kfre_args.calcium)]
    /\ pc' = "kfre8"
    /\ UNCHANGED <<tables, kfre_args, labs, slopes, merge, run>>

-----------------------------------------------------------------------------
(* Load / normalize columns *)

NormPatient(r) ==
    [r EXCEPT !.birth_year = to_num(r.birth_year),
              !.baseline_date = to_dt(r.baseline_date),
              !.baseline_scr = to_num(r.baseline_scr),
              !.baseline_upcr = to_num(r.baseline_upcr)]

NormVisit(r) ==
    [r EXCEPT !.visit_date = to_dt(r.visit_date),
              !.upcr = to_num(r.upcr),
              !.egfr = to_num(r.egfr)]

Normalize ==
    /\ pc = "loaded"
    /\ patients' = [i \in 1..Len(patients) |-> NormPatient(patients[i])]
    /\ visits' = [i \in 1..Len(visits) |-> NormVisit(visits[i])]
    /\ pc' = "normalized"
    /\ UNCHANGED <<v2, egfr_endpoints, remission>>
    /\ UNCHANGED others

-----------------------------------------------------------------------------
(* Derive baseline anchors *)

SameKey(a, b) == a.center_code = b.center_code /\ a.patient_code = b.patient_code

\* visits.dropna(subset=["visit_date"])
DatedIdx(vs) == {i \in 1..Len(vs) : vs[i].visit_date # NaT}

\* first_visit: groupby(key)["visit_date"].min(), left-merged onto the patient
first_visit(vs, p) ==
    LET ds == {vs[i].visit_date : i \in {j \in DatedIdx(vs) : SameKey(vs[j], p)}}
    IN  IF ds = {} THEN NaT ELSE Min(ds)

\* variant: the earliest visit is preferred to the declared date
pick_baseline_date_visit_first(row) ==
    IF row.first_visit_date # NaT THEN row.first_visit_date ELSE row.baseline_date

pick_baseline_date(row) ==
    IF row.baseline_date # NaT THEN row.baseline_date ELSE row.first_visit_date

compute_baseline_egfr(row) ==
    LET scr == row.baseline_scr
        by == row.birth_year
        bd == row.baseline_anchor
    IN  IF isna(scr) THEN NaN
        ELSE IF isna(by) \/ bd = NaT THEN NaN
        ELSE ckdepi2021(RDiv(scr * 100, 884), YearOf(bd) - (by \div FP), row.sex)

\* sort_values("visit_date") of the dated visits: every order of the row
\* indices that is ascending by date (rows of equal date in any order)
SortOrders(vs) ==
    LET D == DatedIdx(vs)
        n == Cardinality(D)
    IN  {o \in [1..n -> D] :
            /\ \A i, j \in 1..n : i # j => o[i] # o[j]
            /\ \A i \in 1..n : \A j \in 1..n :
                   i < j => vs[o[i]].visit_date <= vs[o[j]].visit_date}

RECURSIVE FirstNotNa(_)
FirstNotNa(s) ==
    IF s = <<>> THEN NaN
    ELSE IF Head(s) # NaN THEN Head(s) ELSE FirstNotNa(Tail(s))

\* groupby(key).first()[col] over the rows in order o, left-merged onto p:
\* GroupBy.first takes, per column, the first value that is not null
first_visit_egfr(vs, o, p, col) ==
    LET rows == SelectSeq(o, LAMBDA i : SameKey(vs[i], p))
    IN  FirstNotNa([k \in 1..Len(rows) |-> vs[rows[k]][col]])

compute_age(row) ==
    LET by == row.birth_year
        bd == row.baseline_anchor
    IN  IF isna(by) \/ bd = NaT THEN NaN ELSE YearOf(bd) - (by \div FP)

FillNa(x, y) == IF isna(x) THEN y ELSE x

AnchorPatient(vs, o, p) ==
    LET r1 == p @@ [first_visit_date |-> first_visit(vs, p)]
        r2 == r1 @@ [baseline_anchor |-> pick_baseline_date(r1)]
        r3 == r2 @@ [baseline_egfr_calc |-> compute_baseline_egfr(r2),
                     first_visit_egfr |-> first_visit_egfr(vs, o, p, "egfr"),
                     first_visit_upcr |-> first_visit_egfr(vs, o, p, "upcr")]
        r4 == r3 @@ [baseline_egfr |-> FillNa(r3.baseline_egfr_calc, r3.first_visit_egfr),
                     baseline_upcr_final |-> FillNa(r3.baseline_upcr, r3.first_visit_upcr)]
    IN  r4 @@ [age_baseline |-> compute_age(r4)]

\* patients.apply(compute_baseline_egfr) ends the run with the exception of
\* ckdepi2021 when a row has age and sex and a creatinine that is not
\* positive: 0.0 ** alpha raises ZeroDivisionError, and a negative base
\* gives a complex number, on which float() raises TypeError
DeriveAnchors ==
    /\ pc = "normalized"
    /\ LET anchor_of(p) == pick_baseline_date(p @@ [first_visit_date |-> first_visit(visits, p)])
           raises(p) == /\ ~isna(p.baseline_scr)
                        /\ ~isna(p.birth_year)
                        /\ anchor_of(p) # NaT
                        /\ p.sex # StrNone
                        /\ p.baseline_scr <= 0
           raising == SelectSeq(patients, raises)
       IN  IF raising # <<>>
           THEN /\ error' = IF raising[1].baseline_scr = 0
                            THEN "ZeroDivisionError: 0.0 cannot be raised to a negative power"
                            ELSE "TypeError: float() argument must be a string or a real number"
                /\ pc' = "aborted"
                /\ UNCHANGED patients
           ELSE /\ \E o \in SortOrders(visits) :
                       patients' = [i \in 1..Len(patients) |->
                                       AnchorPatient(visits, o, patients[i])]
                /\ pc' = "anchored"
                /\ UNCHANGED error
    /\ UNCHANGED <<visits, v2, egfr_endpoints, remission, events, outcomes>>
    /\ UNCHANGED <<kfre, labs, slopes, merge>>

-----------------------------------------------------------------------------
(* Merge key for visit timeline: anchor, v2 *)

\* anchor = patients[[...]].dropna(subset=["baseline_anchor"])
anchor(ps) == SelectSeq(ps, LAMBDA p : p.baseline_anchor # NaT)

days_from_baseline(v, a) == v.visit_date - a.baseline_anchor

time_yr(days) == RDiv(days * FP * 100, 36525)

\* one row of visits.merge(anchor, suffixes=("", "_b")): the visit keeps its
\* own module column, the patient's arrives as module_b
v2_row(v, a) ==
    [center_code |-> v.center_code, patient_code |-> v.patient_code,
     module |-> v.module, visit_date |-> v.visit_date,
     egfr |-> v.egfr, upcr |-> v.upcr,
     baseline_anchor |-> a.baseline_anchor, baseline_egfr |-> a.baseline_egfr,
     baseline_upcr_final |-> a.baseline_upcr_final,
     sex |-> a.sex, birth_year |-> a.birth_year, module_b |-> a.module,
     days_from_baseline |-> days_from_baseline(v, a),
     time_yr |-> time_yr(days_from_baseline(v, a))]

\* variant: the join matches on center_code alone
merge_on_center(v, a) == v.center_code = a.center_code

\* on=["center_code", "patient_code"]
merge_on(v, a) == SameKey(v, a)

RECURSIVE merge_inner(_, _)
\* how="inner": rows in the order of the left table, each with its matches
merge_inner(left, right) ==
    IF left = <<>> THEN <<>>
    ELSE LET m == SelectSeq(right, LAMBDA a : merge_on(Head(left), a))
         IN  [k \in 1..Len(m) |-> v2_row(Head(left), m[k])]
             \o merge_inner(Tail(left), right)

BuildTimeline ==
    /\ pc = "anchored"
    /\ v2' = merge_inner(SelectSeq(visits, LAMBDA v : v.visit_date # NaT),
                         anchor(patients))
    /\ pc' = "timeline"
    /\ UNCHANGED <<patients, visits, egfr_endpoints, remission>>
    /\ UNCHANGED others

-----------------------------------------------------------------------------
(* 12-month outcomes *)

\* win, pick and outcomes.  sort_values on three columns is stable, and
\* GroupBy.first takes, per column, the first value that is not null.  When
\* no visit at all lies in the window, pick has the key columns only, the
\* merge adds no egfr column and outcomes["egfr_12m"] raises KeyError.
Outcomes12m ==
    /\ pc = "timeline"
    /\ LET win == SelectSeq(v2, LAMBDA r : /\ r.days_from_baseline >= 270
                                          /\ r.days_from_baseline <= 450)
           abs_to_365(r) == Abs(r.days_from_baseline - 365)
           of(k) == {i \in 1..Len(win) : SameKey(win[i], k)}
           pos(k, i) == 1 + Cardinality({j \in of(k) :
                                \/ abs_to_365(win[j]) < abs_to_365(win[i])
                                \/ abs_to_365(win[j]) = abs_to_365(win[i]) /\ j < i})
           sorted(k) == [p \in 1..Cardinality(of(k)) |->
                            win[CHOOSE i \in of(k) : pos(k, i) = p]]
           first(k, col) == FirstNotNa([p \in 1..Len(sorted(k)) |-> sorted(k)[p][col]])
           minus(x, y) == IF isna(x) \/ isna(y) THEN NaN ELSE x - y
           row(a) ==
               [center_code |-> a.center_code, patient_code |-> a.patient_code,
                baseline_date |-> a.baseline_anchor, egfr_baseline |-> a.baseline_egfr,
                upcr_baseline |-> a.baseline_upcr_final,
                visit_12m_date |-> first(a, "visit_date"),
                days_from_baseline |-> first(a, "days_from_baseline"),
                egfr_12m |-> first(a, "egfr"), upcr_12m |-> first(a, "upcr"),
                egfr_delta |-> minus(first(a, "egfr"), a.baseline_egfr),
                upcr_delta |-> minus(first(a, "upcr"), a.baseline_upcr_final)]
           a_df == anchor(patients)
       IN  IF win = <<>>
           THEN /\ error' = "KeyError: 'egfr_12m'"
                /\ pc' = "aborted"
                /\ UNCHANGED outcomes
           ELSE /\ outcomes' = [i \in 1..Len(a_df) |-> row(a_df[i])]
                /\ pc' = "outcomes"
                /\ UNCHANGED error
    /\ UNCHANGED <<tables, events>>
    /\ UNCHANGED <<kfre, labs, slopes, merge>>

-----------------------------------------------------------------------------
(* Baseline labs for the 8-variable KFRE: _extract_baseline_lab and the    *)
(* unit auto-conversion.  Here a patients row holds the key, the anchor    *)
(* and, once extracted, the four lab_<key> columns.                        *)

_LAB_KEYWORDS ==
    [albumin |-> {"albumin"},
     phosphate |-> {"phosphate", "phosphorus"},
     bicarbonate |-> {"bicarbonate", "hco3", "co2"},
     calcium |-> {"calcium"}]

WindowDays == 90

\* the keywords that str.lower() of a lab name contains, for the names that occur
KeywordsIn(lab_name) ==
    CASE lab_name = "Albumin" -> {"albumin"}
      [] lab_name = "Urine albumin" -> {"albumin"}
      [] lab_name = "Phosphorus" -> {"phosphorus"}
      [] lab_name = "HCO3" -> {"hco3"}
      [] lab_name = "Calcium" -> {"calcium"}
      [] OTHER -> {}

\* labs["lab_value"] = to_num(...), labs["lab_date"] = to_dt(...)
NormLab(r) == [r EXCEPT !.lab_value = to_num(r.lab_value), !.lab_date = to_dt(r.lab_date)]

days_to_baseline(l, a) == Abs(l.lab_date - a.baseline_anchor)

\* rows of the typed labs table with a date whose patient has an anchor within
\* the window: what is left of sub after dropna, the inner merge and the filter
LabIdx(ls, ps) ==
    {i \in 1..Len(ls) :
        /\ ls[i].lab_date # NaT
        /\ \E j \in 1..Len(ps) :
              /\ SameKey(ls[i], ps[j]) /\ ps[j].baseline_anchor # NaT
              /\ days_to_baseline(ls[i], ps[j]) <= WindowDays}

RECURSIVE AscendingOrders(_, _, _)
\* every order of the rows D that is ascending by distance from the anchor of
\* the row's patient (rows at equal distance in any order)
AscendingOrders(ls, ps, D) ==
    LET dist(i) == days_to_baseline(ls[i],
                       CHOOSE q \in {ps[j] : j \in 1..Len(ps)} : SameKey(ls[i], q))
    IN  IF D = {} THEN {<<>>}
        ELSE UNION {{<<i>> \o rest : rest \in AscendingOrders(ls, ps, D \ {i})} :
                       i \in {k \in D : \A j \in D : dist(k) <= dist(j)}}

\* sort_values("days_to_baseline")
LabSortOrders(ls, ps) == AscendingOrders(ls, ps, LabIdx(ls, ps))

\* the value that index.map(_ser) gives patient p: groupby(key).first() of
\* lab_value over the keyword-matching rows in sorted order o
_extract_baseline_lab(labs_df, o, p, lab_key) ==
    LET rows == SelectSeq(o, LAMBDA i :
                    /\ KeywordsIn(labs_df[i].lab_name) \cap _LAB_KEYWORDS[lab_key] # {}
                    /\ SameKey(labs_df[i], p))
    IN  FirstNotNa([k \in 1..Len(rows) |-> labs_df[rows[k]].lab_value])

ExtractLabs ==
    /\ pc = "labs_loaded"
    /\ labs' = [i \in 1..Len(labs) |-> NormLab(labs[i])]
    /\ \E o \in LabSortOrders(labs', patients) :
           patients' = [i \in 1..Len(patients) |->
               patients[i] @@
               [lab_albumin |-> _extract_baseline_lab(labs', o, patients[i], "albumin"),
                lab_phosphate |-> _extract_baseline_lab(labs', o, patients[i], "phosphate"),
                lab_bicarbonate |-> _extract_baseline_lab(labs', o, patients[i], "bicarbonate"),
                lab_calcium |-> _extract_baseline_lab(labs', o, patients[i], "calcium")]]
    /\ pc' = "labs"
    /\ UNCHANGED <<visits, v2, egfr_endpoints, remission, kfre, slopes, merge, run>>

\* a / b-scaled value of a cell, null staying null
Scale(x, num, den) == IF isna(x) THEN NaN ELSE RDiv(x * num, den)

\* Series.dropna() of a column
dropna(col) == SelectSeq(col, LAMBDA x : ~isna(x))

RECURSIVE InsertNum(_, _)
InsertNum(s, x) ==
    IF s = <<>> THEN <<x>>
    ELSE IF x < Head(s) THEN <<x>> \o s
    ELSE <<Head(s)>> \o InsertNum(Tail(s), x)

RECURSIVE SortNum(_)
SortNum(s) == IF s = <<>> THEN <<>> ELSE InsertNum(SortNum(Tail(s)), Head(s))

\* twice Series.median() of a non-empty column without nulls
median2(vals) ==
    LET srt == SortNum(vals)
        n == Len(srt)
    IN  IF n % 2 = 1 THEN 2 * srt[(n + 1) \div 2]
        ELSE srt[n \div 2] + srt[n \div 2 + 1]

\* variant: each record is converted on its own value
convert_albumin_per_record(col) ==
    [i \in 1..Len(col) |-> IF ~isna(col[i]) /\ col[i] > 10 * FP
                           THEN Scale(col[i], 1, 10) ELSE col[i]]

\* albumin: median > 10 -> / 10
convert_albumin(col) ==
    LET alb_vals == dropna(col)
    IN  IF Len(alb_vals) > 0 /\ median2(alb_vals) > 2 * 10 * FP
        THEN [i \in 1..Len(col) |-> Scale(col[i], 1, 10)] ELSE col

\* phosphate: median < 3 -> * 3.097
convert_phosphate(col) ==
    LET phos_vals == dropna(col)
    IN  IF Len(phos_vals) > 0 /\ median2(phos_vals) < 2 * 3 * FP
        THEN [i \in 1..Len(col) |-> Scale(col[i], 3097, 1000)] ELSE col

\* calcium: median < 5 -> * 4.008
convert_calcium(col) ==
    LET ca_vals == dropna(col)
    IN  IF Len(ca_vals) > 0 /\ median2(ca_vals) < 2 * 5 * FP
        THEN [i \in 1..Len(col) |-> Scale(col[i], 4008, 1000)] ELSE col

UnitConversion ==
    /\ pc = "labs"
    /\ LET column(col) == [i \in 1..Len(patients) |-> patients[i][col]]
           alb == convert_albumin(column("lab_albumin"))
           phos == convert_phosphate(column("lab_phosphate"))
           ca == convert_calcium(column("lab_calcium"))
       IN  patients' = [i \in 1..Len(patients) |->
               [patients[i] EXCEPT !.lab_albumin = alb[i],
                                   !.lab_phosphate = phos[i],
                                   !.lab_calcium = ca[i]]]
    /\ pc' = "units"
    /\ UNCHANGED <<visits, v2, egfr_endpoints, remission, kfre, labs, slopes, merge, run>>

-----------------------------------------------------------------------------
(* Sorting and grouping of timeline rows *)

\* the text values of the key columns, in ascending order
SortedText ==
    <<"101", "102", "2020-01-01", "2020-04-10", "2020-07-19", "2021-01-01",
      "A", "B", "P7", "p1", "p2", "p3">>
Rank(s) == CHOOSE i \in 1..Len(SortedText) : SortedText[i] = s

\* strict order of sort_values(["center_code", "patient_code", "days_from_baseline"])
RowBefore(a, b) ==
    \/ Rank(a.center_code) < Rank(b.center_code)
    \/ /\ a.center_code = b.center_code
       /\ \/ Rank(a.patient_code) < Rank(b.patient_code)
          \/ /\ a.patient_code = b.patient_code
             /\ a.days_from_baseline < b.days_from_baseline

RECURSIVE InsertRow(_, _)
InsertRow(s, r) ==
    IF s = <<>> THEN <<r>>
    ELSE IF RowBefore(r, Head(s)) THEN <<r>> \o s
    ELSE <<Head(s)>> \o InsertRow(Tail(s), r)

RECURSIVE sort_values(_)
\* stable: rows that compare equal keep their input order
sort_values(s) ==
    IF s = <<>> THEN <<>>
    ELSE InsertRow(sort_values(SubSeq(s, 1, Len(s) - 1)), s[Len(s)])

RECURSIVE GroupKeys(_)
\* the (center_code, patient_code) groups of a sorted table, in order
GroupKeys(s) ==
    IF s = <<>> THEN <<>>
    ELSE LET rest == SelectSeq(Tail(s), LAMBDA r : ~SameKey(r, Head(s)))
         IN  <<[center_code |-> Head(s).center_code,
                patient_code |-> Head(s).patient_code]>> \o GroupKeys(rest)

-----------------------------------------------------------------------------
(* eGFR decline endpoints *)

Thresh40 == 600
Thresh57 == 430

\* variant: rows without an eGFR are not dropped
decline_eligible_keep_na(r) == r.baseline_egfr # NaN /\ r.baseline_egfr > 0

decline_eligible(r) == r.egfr # NaN /\ r.baseline_egfr # NaN /\ r.baseline_egfr > 0

\* egfr / baseline_egfr, in units of 1/FP rounded down (so that comparing
\* it with a threshold that is a whole number of 1/FP is exact)
pct_of_baseline(r) == (r.egfr * FP) \div r.baseline_egfr

\* variant: a ratio equal to the threshold counts as a crossing
decline_hit_le(r, thresh) == pct_of_baseline(r) <= thresh

decline_hit(r, thresh) == pct_of_baseline(r) < thresh

\* variant: the two labels test each other's threshold
decline_record_swapped(k, sub) ==
    LET hit40 == SelectSeq(sub, LAMBDA r : decline_hit(r, Thresh57))
        hit57 == SelectSeq(sub, LAMBDA r : decline_hit(r, Thresh40))
    IN  [center_code |-> k.center_code, patient_code |-> k.patient_code,
         reached_40pct |-> hit40 # <<>>,
         first_date_40pct |-> IF hit40 # <<>> THEN hit40[1].visit_date ELSE NaT,
         days_to_40pct |-> IF hit40 # <<>> THEN hit40[1].days_from_baseline ELSE NaN,
         reached_57pct |-> hit57 # <<>>,
         first_date_57pct |-> IF hit57 # <<>> THEN hit57[1].visit_date ELSE NaT,
         days_to_57pct |-> IF hit57 # <<>> THEN hit57[1].days_from_baseline ELSE NaN]

decline_record(k, sub) ==
    LET hit40 == SelectSeq(sub, LAMBDA r : decline_hit(r, Thresh40))
        hit57 == SelectSeq(sub, LAMBDA r : decline_hit(r, Thresh57))
    IN  [center_code |-> k.center_code, patient_code |-> k.patient_code,
         reached_40pct |-> hit40 # <<>>,
         first_date_40pct |-> IF hit40 # <<>> THEN hit40[1].visit_date ELSE NaT,
         days_to_40pct |-> IF hit40 # <<>> THEN hit40[1].days_from_baseline ELSE NaN,
         reached_57pct |-> hit57 # <<>>,
         first_date_57pct |-> IF hit57 # <<>> THEN hit57[1].visit_date ELSE NaT,
         days_to_57pct |-> IF hit57 # <<>> THEN hit57[1].days_from_baseline ELSE NaN]

compute_egfr_decline_endpoints(v2_df) ==
    LET grp == sort_values(SelectSeq(v2_df, decline_eligible))
        keys == GroupKeys(grp)
    IN  [i \in 1..Len(keys) |->
            decline_record(keys[i], SelectSeq(grp, LAMBDA r : SameKey(r, keys[i])))]

EgfrDecline ==
    /\ pc = "timeline"
    /\ egfr_endpoints' = compute_egfr_decline_endpoints(v2)
    /\ pc' = "decline"
    /\ UNCHANGED <<patients, visits, v2, remission>>
    /\ UNCHANGED others

-----------------------------------------------------------------------------
(* IgAN remission endpoints *)

CrLimit == 300
PrLimit == 1000

\* v2_df["module"].astype(str).str.upper() == "IGAN": the module column of v2
igan_row(r) == Upper(r.module) = "IGAN"

cr_hit(r) == r.upcr < CrLimit * FP

\* upcr <= b_upcr * 0.50 and upcr < 1000
pr_hit(r, b_upcr) == 2 * r.upcr <= b_upcr /\ r.upcr < PrLimit * FP

remission_record(k, sub) ==
    LET b_upcr == sub[1].baseline_upcr_final
        cr_hits == SelectSeq(sub, cr_hit)
        pr_hits == IF b_upcr # NaN /\ b_upcr > 0
                   THEN SelectSeq(sub, LAMBDA r : pr_hit(r, b_upcr))
                   ELSE <<>>
    IN  [center_code |-> k.center_code, patient_code |-> k.patient_code,
         reached_cr |-> cr_hits # <<>>,
         first_date_cr |-> IF cr_hits # <<>> THEN cr_hits[1].visit_date ELSE NaT,
         days_to_cr |-> IF cr_hits # <<>> THEN cr_hits[1].days_from_baseline ELSE NaN,
         reached_pr |-> pr_hits # <<>>,
         first_date_pr |-> IF pr_hits # <<>> THEN pr_hits[1].visit_date ELSE NaT,
         days_to_pr |-> IF pr_hits # <<>> THEN pr_hits[1].days_from_baseline ELSE NaN]

compute_igan_remission(v2_df) ==
    LET igan_visits == sort_values(SelectSeq(v2_df,
                           LAMBDA r : igan_row(r) /\ r.upcr # NaN))
        keys == GroupKeys(igan_visits)
    IN  [i \in 1..Len(keys) |->
            remission_record(keys[i],
                SelectSeq(igan_visits, LAMBDA r : SameKey(r, keys[i])))]

IganRemission ==
    /\ pc = "decline"
    /\ remission' = compute_igan_remission(v2)
    /\ pc' = "remission"
    /\ UNCHANGED <<patients, visits, v2, egfr_endpoints>>
    /\ UNCHANGED others

-----------------------------------------------------------------------------
(* eGFR slope: mixed-effects fit and per-patient OLS *)

MinObs == 10
MinPatients == 5

\* v2.dropna(subset=["egfr", "time_yr"]), then time_yr >= 0
lme_data(v2_df) ==
    SelectSeq(v2_df, LAMBDA r : r.egfr # NaN /\ r.time_yr # NaN /\ r.time_yr >= 0)

patient_id(r) == r.center_code \o "_" \o r.patient_code

\* lme_data["patient_id"].nunique()
n_pts_lme(data) == Cardinality({patient_id(data[i]) : i \in 1..Len(data)})

\* variant: the exception of model.fit leaves no row
lme_rows_error_unlabelled(data, has_statsmodels, raises) ==
    IF has_statsmodels /\ Len(data) >= MinObs /\ n_pts_lme(data) < MinPatients
    THEN <<[method |-> "LME skipped (< 5 patients)",
            n_patients |-> NaN, n_observations |-> NaN]>>
    ELSE IF has_statsmodels /\ Len(data) >= MinObs /\ ~raises
    THEN <<[method |-> "LME (random intercept per patient)",
            n_patients |-> n_pts_lme(data), n_observations |-> Len(data)]>>
    ELSE <<>>

\* the slope block up to the per-patient loop: slope_results as the
\* if / try / except leaves it (the "LME error" row stands for "LME error: <e>")
lme_rows(data, has_statsmodels, raises) ==
    IF has_statsmodels /\ Len(data) >= MinObs
    THEN IF n_pts_lme(data) >= MinPatients
         THEN IF ~raises
              THEN <<[method |-> "LME (random intercept per patient)",
                      n_patients |-> n_pts_lme(data), n_observations |-> Len(data)]>>
              ELSE <<[method |-> "LME error", n_patients |-> NaN, n_observations |-> NaN]>>
         ELSE <<[method |-> "LME skipped (< 5 patients)",
                 n_patients |-> NaN, n_observations |-> NaN]>>
    ELSE <<>>

LmeSlope ==
    /\ pc = "slopes"
    /\ slope_results' = lme_rows(lme_data(v2), HAS_STATSMODELS, fit_raises)
    /\ pc' = "lme_done"
    /\ UNCHANGED <<tables, kfre, labs, merge, run, HAS_STATSMODELS, fit_raises,
                   per_patient_slopes,
                   slope_files>>

RECURSIVE Sum(_)
Sum(s) == IF s = <<>> THEN 0 ELSE Head(s) + Sum(Tail(s))

\* np.polyfit(x, y, 1) for x, y in units of 1/FP: <<slope, intercept>> in
\* units of 1/FP, each rounded to 3 decimals.  With every x equal the system
\* has rank 1 and lstsq gives the minimum-norm solution of the scaled
\* system; with every x zero the scaling divides 0 by 0 and the outcome is
\* that of lstsq on NaN: svd_raises says whether it raises LinAlgError or
\* returns NaN coefficients (<<>> stands for the exception).
polyfit(x, y, svd_raises) ==
    LET n == Len(x)
        sx == Sum(x)
        sy == Sum(y)
        sxy == Sum([i \in 1..n |-> x[i] * y[i]])
        sxx == Sum([i \in 1..n |-> x[i] * x[i]])
        den == n * sxx - sx * sx
        slope == RDiv(LongDiv(n * sxy - sx * sy, den, 2), 10)
    IN  IF den # 0 THEN <<slope, RDiv(sy * FP - slope * sx, n * FP)>>
        ELSE IF sx # 0 THEN <<RDiv(sy * FP, 2 * sx), RDiv(sy, 2 * n)>>
        ELSE IF svd_raises THEN <<>>
        ELSE <<NaN, NaN>>

RECURSIVE ols_rows(_, _, _)
\* the loop over lme_data.groupby(key): one row per group, none for a group
\* of fewer than 2 rows or whose fit raises
ols_rows(keys, data, svd_raises) ==
    IF keys = <<>> THEN <<>>
    ELSE LET sub == SelectSeq(data, LAMBDA r : SameKey(r, Head(keys)))
             x == [i \in 1..Len(sub) |-> sub[i].time_yr]
             y == [i \in 1..Len(sub) |-> sub[i].egfr]
             coef == polyfit(x, y, svd_raises)
             rest == ols_rows(Tail(keys), data, svd_raises)
         IN  IF Len(sub) < 2 \/ coef = <<>> THEN rest
             ELSE <<[center_code |-> Head(keys).center_code,
                     patient_code |-> Head(keys).patient_code,
                     slope_mL_yr |-> coef[1], intercept_egfr |-> coef[2],
                     n_visits_used |-> Len(sub),
                     follow_up_yr |-> RDiv(-Min({-x[i] : i \in 1..Len(x)})
                                           - Min({x[i] : i \in 1..Len(x)}), 10)]>>
                  \o rest

PerPatientOls ==
    /\ pc = "lme_done"
    /\ \E svd_raises \in BOOLEAN :
           per_patient_slopes' =
               ols_rows(GroupKeys(sort_values(lme_data(v2))), lme_data(v2), svd_raises)
    /\ pc' = "ols_done"
    /\ UNCHANGED <<tables, kfre, labs, merge, run, HAS_STATSMODELS, fit_raises, slope_results,
                   slope_files>>

\* the two slope files, each written only if its table is not empty
WriteSlopes ==
    /\ pc = "ols_done"
    /\ slope_files' = {f \in {"egfr_slope_lme.csv", "egfr_slope_per_patient.csv"} :
                         \/ f = "egfr_slope_lme.csv" /\ slope_results # <<>>
                         \/ f = "egfr_slope_per_patient.csv" /\ per_patient_slopes # <<>>}
    /\ pc' = "written"
    /\ UNCHANGED <<tables, kfre, labs, merge, run, HAS_STATSMODELS, fit_raises, slope_results,
                   per_patient_slopes>>

-----------------------------------------------------------------------------
(* merge_centers.py: the merge of the center directories *)

\* the table definitions, in the order of the dict
TABLES ==
    <<[name |-> "patients_baseline", file |-> "patients_baseline.csv", required |-> TRUE,
       dedup_key |-> <<"center_code", "patient_code">>,
       req_cols |-> <<"center_code", "module", "patient_code">>,
       sort |-> <<"center_code", "patient_code">>],
      [name |-> "visits_long", file |-> "visits_long.csv", required |-> TRUE,
       dedup_key |-> <<"center_code", "patient_code", "visit_date">>,
       req_cols |-> <<"center_code", "module", "patient_code", "visit_date">>,
       sort |-> <<"center_code", "patient_code", "visit_date">>],
      [name |-> "labs_long", file |-> "labs_long.csv", required |-> FALSE,
       dedup_key |-> <<"center_code", "patient_code", "lab_date", "lab_name">>,
       req_cols |-> <<"center_code", "module", "patient_code">>,
       sort |-> <<"center_code", "patient_code", "lab_date">>],
      [name |-> "meds_long", file |-> "meds_long.csv", required |-> FALSE,
       dedup_key |-> <<"center_code", "patient_code", "drug_name", "start_date">>,
       req_cols |-> <<"center_code", "module", "patient_code">>,
       sort |-> <<"center_code", "patient_code">>],
      [name |-> "variants_long", file |-> "variants_long.csv", required |-> FALSE,
       dedup_key |-> <<"center_code", "patient_code", "gene", "variant">>,
       req_cols |-> <<"center_code", "module", "patient_code">>,
       sort |-> <<"center_code", "patient_code">>],
      [name |-> "events_long", file |-> "events_long.csv", required |-> FALSE,
       dedup_key |-> <<"center_code", "patient_code", "event_type">>,
       req_cols |-> <<"center_code", "module", "patient_code">>,
       sort |-> <<"center_code", "patient_code", "event_date">>]>>

\* A parsed cell is <<kind, text>>: "num" for a cell of a column that read_csv
\* inferred as numeric, "str" for a cell of an object column; NA is the null
\* of either. Two cells are equal for pandas iff kind and text are equal: the
\* integer 101 and the string "101" are different keys.
NA == <<"nan", "">>

\* pd.read_csv(path, encoding="utf-8-sig", low_memory=False): the type of a
\* column is inferred from the whole column of this file; an empty cell is null
read_csv(f) ==
    LET n == Len(f.rows)
        \* the cell texts that are numbers
        NumericText == {"0", "88", "100", "1980", "101", "102", "40", "45", "50", "55", "60", "70",
                        "4.0", "4.1", "4.2", "4.3", "9.5"}
        cells(c) == {f.rows[i][c] : i \in 1..n} \ {""}
        numeric(c) == cells(c) # {} /\ cells(c) \subseteq NumericText
        parse(c, t) == IF t = "" THEN NA
                       ELSE IF numeric(c) THEN <<"num", t>> ELSE <<"str", t>>
    IN  [columns |-> f.columns,
         rows |-> [i \in 1..n |-> [c \in f.columns |-> parse(c, f.rows[i][c])]]]

\* variant: a file that lacks a required column is warned about and kept
validate_center_df_kept(df, req_cols) ==
    LET missing == SelectSeq(req_cols, LAMBDA c : c \notin df.columns)
    IN  [keep |-> TRUE,
         warnings |-> IF missing # <<>>
                      THEN <<"[SKIP] required column '" \o missing[1] \o "' missing">>
                      ELSE <<>>]

\* validate_center_df: the warnings it appends, and whether the file is kept
validate_center_df(df, req_cols) ==
    LET missing == SelectSeq(req_cols, LAMBDA c : c \notin df.columns)
        blank == {i \in 1..Len(df.rows) : df.rows[i].center_code = NA}
    IN  IF missing # <<>>
        THEN [keep |-> FALSE,
              warnings |-> <<"[SKIP] required column '" \o missing[1] \o "' missing">>]
        ELSE [keep |-> TRUE,
              warnings |-> IF blank # {} THEN <<"[WARN] rows have blank center_code">>
                           ELSE <<>>]

RECURSIVE drop_duplicates(_, _)
\* DataFrame.drop_duplicates(subset=K, keep="first")
drop_duplicates(rows, K) ==
    IF rows = <<>> THEN <<>>
    ELSE LET init == drop_duplicates(SubSeq(rows, 1, Len(rows) - 1), K)
             last == rows[Len(rows)]
         IN  IF \E i \in 1..Len(init) : \A c \in K : init[i][c] = last[c]
             THEN init
             ELSE Append(init, last)

\* DataFrame.sort_values(cols, na_position="last"): stable; in a column of
\* mixed types the numbers come before the strings
sort_values_by(rows, cols) ==
    LET n == Len(rows)
        R(v) == IF v = NA THEN 300
                ELSE IF v[1] = "num" THEN Rank(v[2]) ELSE 100 + Rank(v[2])
        less(a, b) == \E k \in 1..Len(cols) :
                          /\ \A m \in 1..(k - 1) : a[cols[m]] = b[cols[m]]
                          /\ R(a[cols[k]]) < R(b[cols[k]])
        pos(i) == 1 + Cardinality({j \in 1..n :
                          \/ less(rows[j], rows[i])
                          \/ ~less(rows[i], rows[j]) /\ j < i})
    IN  [p \in 1..n |-> rows[CHOOSE i \in 1..n : pos(i) = p]]

RECURSIVE concat(_, _)
\* pd.concat(frames, ignore_index=True) over the columns cols: a column that a
\* frame does not have is null in its rows
concat(frames, cols) ==
    IF frames = <<>> THEN <<>>
    ELSE LET f == Head(frames)
         IN  [i \in 1..Len(f.rows) |->
                 [c \in cols |-> IF c \in f.columns THEN f.rows[i][c] ELSE NA]]
             \o concat(Tail(frames), cols)

\* one turn of the merge loop: the merged table and its Duplicates entries
merge_table(tdef, frames) ==
    IF frames = <<>> THEN [frame |-> [columns |-> {}, rows |-> <<>>], dups |-> <<>>]
    ELSE LET cols == UNION {frames[i].columns : i \in 1..Len(frames)}
             combined == concat(frames, cols)
             key_cols == {c \in cols : \E k \in 1..Len(tdef.dedup_key) : tdef.dedup_key[k] = c}
             same(a, b) == \A c \in key_cols : a[c] = b[c]
             dups == {i \in 1..Len(combined) :
                         \E j \in 1..Len(combined) : j # i /\ same(combined[i], combined[j])}
             dup_df == SelectSeq(combined, LAMBDA r :
                         \E i \in dups : combined[i] = r)
             firsts == drop_duplicates(dup_df, key_cols)
             deduped == IF key_cols = {} THEN combined
                        ELSE drop_duplicates(combined, key_cols)
             sort_cols == SelectSeq(tdef.sort, LAMBDA c : c \in cols)
         IN  [frame |-> [columns |-> cols, rows |-> sort_values_by(deduped, sort_cols)],
              dups |-> IF key_cols = {} THEN <<>>
                       ELSE [i \in 1..Len(firsts) |->
                                [table |-> tdef.name,
                                 key |-> [c \in key_cols |-> firsts[i][c]],
                                 duplicate_rows |-> Cardinality(dups)]]]

\* the PatientCollisions entries of a merged patients table
collisions(pts) ==
    IF pts.rows = <<>> \/ ~({"center_code", "patient_code"} \subseteq pts.columns) THEN <<>>
    ELSE LET having(code) == SelectSeq(pts.rows, LAMBDA r : r.patient_code = code)
             n_centers(code) ==
                 Cardinality({having(code)[i].center_code : i \in 1..Len(having(code))} \ {NA})
             hit == SelectSeq(pts.rows, LAMBDA r :
                        r.patient_code # NA /\ n_centers(r.patient_code) > 1)
             codes == sort_values_by(drop_duplicates(hit, {"patient_code"}), <<"patient_code">>)
             centers(code) == drop_duplicates(having(code), {"center_code"})
         IN  [i \in 1..Len(codes) |->
                 [patient_code |-> codes[i].patient_code,
                  n_centers |-> n_centers(codes[i].patient_code),
                  center_codes |-> [j \in 1..Len(centers(codes[i].patient_code)) |->
                                       centers(codes[i].patient_code)[j].center_code]]]

\* one turn of the loop over center_dirs
ScanCenter ==
    /\ pc = "scan"
    /\ cdir <= Len(center_dirs)
    /\ LET d == center_dirs[cdir]
           \* load_csv, then validate_center_df
           res(t) == IF TABLES[t].file \notin DOMAIN d.files
                     THEN [keep |-> FALSE,
                           warnings |-> IF TABLES[t].required
                                        THEN <<"[WARN] required file '" \o TABLES[t].file
                                               \o "' not found">>
                                        ELSE <<>>]
                     ELSE validate_center_df(read_csv(d.files[TABLES[t].file]),
                                             TABLES[t].req_cols)
           raw2 == [t \in DOMAIN raw |->
                       LET k == CHOOSE k \in 1..Len(TABLES) : TABLES[k].name = t
                       IN  IF res(k).keep
                           THEN Append(raw[t], read_csv(d.files[TABLES[k].file]))
                           ELSE raw[t]]
           n(t) == IF res(t).keep THEN Len(d.files[TABLES[t].file].rows) ELSE 0
           last_patients == raw2["patients_baseline"][Len(raw2["patients_baseline"])]
           ccs == drop_duplicates(SelectSeq(last_patients.rows,
                                            LAMBDA r : r.center_code # NA), {"center_code"})
       IN  IF ~d.exists
           THEN /\ qc_warnings' = Append(qc_warnings, "[SKIP] Directory not found: " \o d.path)
                /\ UNCHANGED <<raw, qc_center_summary>>
           ELSE /\ qc_warnings' = qc_warnings
                                  \o res(1).warnings \o res(2).warnings \o res(3).warnings
                                  \o res(4).warnings \o res(5).warnings \o res(6).warnings
                /\ raw' = raw2
                /\ qc_center_summary' = Append(qc_center_summary,
                      [directory |-> d.path,
                       center_code |-> IF raw2["patients_baseline"] # <<>> /\ ccs # <<>>
                                       THEN [i \in 1..Len(ccs) |-> ccs[i].center_code[2]]
                                       ELSE <<d.path>>,
                       patients_n |-> n(1),
                       visits_n |-> n(2)])
    /\ cdir' = cdir + 1
    /\ pc' = "scan"
    /\ UNCHANGED <<center_dirs, merged, qc_duplicates, qc_collisions, written, previous>>
    /\ UNCHANGED <<tables, kfre, labs, slopes, run>>

\* the loop "Concatenate, deduplicate, validate" over TABLES
MergeTables ==
    /\ pc = "scan"
    /\ cdir > Len(center_dirs)
    /\ merged' = [t \in DOMAIN raw |->
                     LET k == CHOOSE k \in 1..Len(TABLES) : TABLES[k].name = t
                     IN  merge_table(TABLES[k], raw[t]).frame]
    /\ LET dups(t) == merge_table(TABLES[t], raw[TABLES[t].name]).dups
       IN  qc_duplicates' = dups(1) \o dups(2) \o dups(3) \o dups(4) \o dups(5) \o dups(6)
    /\ pc' = "merged"
    /\ UNCHANGED <<center_dirs, cdir, raw, qc_warnings, qc_center_summary, qc_collisions,
                   written, previous>>
    /\ UNCHANGED <<tables, kfre, labs, slopes, run>>

\* the cross-center patient collision check
CollisionCheck ==
    /\ pc = "merged"
    /\ qc_collisions' = collisions(merged["patients_baseline"])
    /\ qc_warnings' = IF qc_collisions' # <<>>
                      THEN Append(qc_warnings, "[WARN] patient_code(s) appear in >1 center_code")
                      ELSE qc_warnings
    /\ pc' = "checked"
    /\ UNCHANGED <<center_dirs, cdir, raw, merged, qc_center_summary, qc_duplicates, written,
                   previous>>
    /\ UNCHANGED <<tables, kfre, labs, slopes, run>>

\* df.to_csv(fpath, index=False) for every merged table that is not empty: a
\* null is written as an empty cell, a number and a string as their text
WriteMerged ==
    /\ pc = "checked"
    /\ LET to_csv(df) == [i \in 1..Len(df.rows) |->
                             [c \in df.columns |-> df.rows[i][c][2]]]
           out == {t \in 1..Len(TABLES) : merged[TABLES[t].name].rows # <<>>}
       IN  written' = [f \in {TABLES[t].file : t \in out} |->
                          LET t == CHOOSE t \in out : TABLES[t].file = f
                          IN  to_csv(merged[TABLES[t].name])]
    /\ pc' = "written"
    /\ UNCHANGED <<center_dirs, cdir, raw, merged, qc_warnings, qc_center_summary,
                   qc_duplicates, qc_collisions, previous>>
    /\ UNCHANGED <<tables, kfre, labs, slopes, run>>

\* merge_all is run again, on the one directory that holds the files the
\* first run wrote
RunAgain ==
    /\ pc = "written"
    /\ previous = <<>>
    /\ written # <<>>
    /\ previous' = written
    /\ center_dirs' = <<[path |-> "merged", exists |-> TRUE,
                         files |-> [f \in DOMAIN written |->
                                       [columns |-> DOMAIN written[f][1],
                                        rows |-> written[f]]]]>>
    /\ cdir' = 1
    /\ raw' = [t \in DOMAIN raw |-> <<>>]
    /\ merged' = <<>>
    /\ qc_warnings' = <<>>
    /\ qc_center_summary' = <<>>
    /\ qc_duplicates' = <<>>
    /\ qc_collisions' = <<>>
    /\ written' = <<>>
    /\ pc' = "scan"
    /\ UNCHANGED <<tables, kfre, labs, slopes, run>>

-----------------------------------------------------------------------------
(* Input tables, as read_csv delivers them *)

MaxVisits == 2

\* the slope block has not run
NoSlopes ==
    /\ HAS_STATSMODELS = TRUE
    /\ fit_raises = FALSE
    /\ slope_results = <<>>
    /\ per_patient_slopes = <<>>
    /\ slope_files = {}

\* merge_all has not run
NoMerge ==
    /\ center_dirs = <<>>
    /\ cdir = 1
    /\ raw = <<>>
    /\ merged = <<>>
    /\ qc_warnings = <<>>
    /\ qc_center_summary = <<>>
    /\ qc_duplicates = <<>>
    /\ qc_collisions = <<>>
    /\ written = <<>>
    /\ previous = <<>>
    /\ error = ""
    /\ events = <<>>
    /\ outcomes = <<>>

PRow(cc, pcode, mod, sex, by, bdate, scr, upcr) ==
    [center_code |-> cc, patient_code |-> pcode, module |-> mod, sex |-> sex,
     birth_year |-> by, baseline_date |-> bdate, baseline_scr |-> scr,
     baseline_upcr |-> upcr]

VRow(cc, pcode, mod, date, egfr, upcr) ==
    [center_code |-> cc, patient_code |-> pcode, module |-> mod,
     visit_date |-> date, egfr |-> egfr, upcr |-> upcr]

\* raw date cells: 2020-01-01, 2020-04-10, 2020-07-19 (days 0, 100, 200)
D0 == 20200101
D100 == 20200410
D200 == 20200719

SeqsUpTo(S, n) == UNION {[1..k -> S] : k \in 0..n}

\* a patients table holds at most one row per key: one of rowsA or none,
\* then one of rowsB or none
PatientTables(rowsA, rowsB) ==
    {a \o b : a \in {<<>>} \cup {<<r>> : r \in rowsA},
              b \in {<<>>} \cup {<<r>> : r \in rowsB}}

\* Cohort for the anchor, timeline and eGFR-decline computations
PatientsA ==
    {PRow("A", "p1", "IGAN", "M", 1980, d, NaN, NaN) : d \in {NaN, D100, BadText}}
    \cup {PRow("A", "p1", "IGAN", "M", 1980, NaN, 88, NaN)}
PatientsB == {PRow("B", "p1", "IGAN", "M", 1980, NaN, NaN, NaN)}
VisitRows ==
    {VRow("A", "p1", "IGAN", d, e, NaN) : d \in {D0, D200}, e \in {NaN, 100, 60, 50, 40}}
    \cup {VRow("A", "p1", "IGAN", NaN, 40, NaN), VRow("A", "p1", "IGAN", BadText, 40, NaN),
          VRow("A", "p1", "IGAN", D0, 0, NaN),
          VRow("B", "p1", "IGAN", D0, 100, NaN), VRow("B", "p1", "IGAN", D200, 50, NaN),
          VRow("A", "p2", "IGAN", D200, 40, NaN)}

InitTables(PT, VT) ==
    /\ patients \in PT
    /\ visits \in VT
    /\ v2 = <<>>
    /\ egfr_endpoints = <<>>
    /\ remission = <<>>
    /\ pc = "loaded"
    /\ kfre_args = <<>>
    /\ kfre_out = <<>>
    /\ labs = <<>>
    /\ NoSlopes
    /\ NoMerge

Init == InitTables(PatientTables(PatientsA, PatientsB), SeqsUpTo(VisitRows, MaxVisits))

\* Cohort for the 12-month outcomes: patient A/p1, anchored on 2020-01-01,
\* with visits on days 300, 400 and 430 of which each may lack the eGFR, the
\* UPCR or both, and a visit on day 100, outside the window; patient B/p1
\* with a visit on day 300 or none.
InitOutcomes ==
    LET D300 == 20201027
        D400 == 20210204
        D430 == 20210306
    IN  InitTables(PatientTables({PRow("A", "p1", "IGAN", "M", 1980, D0, NaN, u) :
                                     u \in {NaN, 1000}},
                                 {PRow("B", "p1", "IGAN", "M", 1980, D0, NaN, NaN)}),
                   SeqsUpTo({VRow("A", "p1", "IGAN", d, e, u) :
                                d \in {D300, D400}, e \in {NaN, 50}, u \in {NaN, 400}}
                            \cup {VRow("A", "p1", "IGAN", D430, 60, 300),
                                  VRow("A", "p1", "IGAN", D100, 70, 500),
                                  VRow("B", "p1", "IGAN", D300, 55, NaN)},
                            MaxVisits))

\* Cohort for the baseline eGFR / UPCR resolution: every combination of
\* present and missing creatinine, birth year, sex, declared date and UPCR
InitBaseline ==
    LET BaselinePatientsA ==
            {PRow("A", "p1", "IGAN", sx, by, d, scr, u) :
                sx \in {"M", "f", StrNaN}, by \in {NaN, 1980}, d \in {NaN, D100},
                scr \in {NaN, 88}, u \in {NaN, 1000}}
        BaselinePatientsB == {PRow("B", "p1", "IGAN", "F", 1980, NaN, NaN, NaN)}
        BaselineVisitRows ==
            {VRow("A", "p1", "IGAN", d, e, u) :
                d \in {D0, D200}, e \in {NaN, 50}, u \in {NaN, 400}}
            \cup {VRow("A", "p1", "IGAN", NaN, 50, 400), VRow("B", "p1", "IGAN", D0, 50, 400)}
    IN  InitTables(PatientTables(BaselinePatientsA, BaselinePatientsB),
                   SeqsUpTo(BaselineVisitRows, MaxVisits))

\* Cohort for the remission endpoints: module tags of patient and visit rows,
\* baseline UPCR and visit UPCR around the CR and PR limits
InitRemission ==
    LET RemissionPatientsA ==
            {PRow("A", "p1", m, "M", 1980, NaN, NaN, u) :
                m \in {"IGAN", "igan", "LN"}, u \in {NaN, 0, 1000, 3000}}
        RemissionPatientsB == {PRow("B", "p1", "IGAN", "M", 1980, NaN, NaN, 1000)}
        RemissionVisitRows ==
            {VRow("A", "p1", m, d, NaN, u) :
                m \in {"IGAN", "LN"}, d \in {D0, D200}, u \in {NaN, 250, 300, 500, 1200}}
            \cup {VRow("B", "p1", "IGAN", D0, NaN, 250)}
    IN  InitTables(PatientTables(RemissionPatientsA, RemissionPatientsB),
                   SeqsUpTo(RemissionVisitRows, MaxVisits))

\* Arguments of the KFRE calls: each one present and valid, missing (None or
\* NaN), not a number, not finite, or not positive
KfreArgs ==
    [age : {PyNone, NaN, 0, 20, 50, 90},
     sex : {"M", "F", "f", StrNaN, StrNone},
     egfr : {PyNone, NaN, PosInf, 0, 5 * FP, 60 * FP, 120 * FP},
     upcr : {PyNone, NaN, BadText, 0, 30 * FP, 1000 * FP, 5000 * FP},
     albumin : {PyNone, NaN, 4 * FP},
     phosphate : {NaN, 3500, 6 * FP},
     bicarbonate : {PyNone, 24 * FP},
     calcium : {BadText, 9500}]

InitKfre ==
    /\ kfre_args \in KfreArgs
    /\ kfre_out = <<>>
    /\ labs = <<>>
    /\ NoSlopes
    /\ NoMerge
    /\ pc = "kfre_args"
    /\ patients = <<>>
    /\ visits = <<>>
    /\ v2 = <<>>
    /\ egfr_endpoints = <<>>
    /\ remission = <<>>

\* Labs cohorts.  A patients row here is as the anchor derivation leaves it,
\* cut down to the columns the lab extraction reads.
MaxLabs == 3

ARow(cc, pcode, anchor_day) ==
    [center_code |-> cc, patient_code |-> pcode, baseline_anchor |-> anchor_day]

LRow(cc, pcode, name, date, value) ==
    [center_code |-> cc, patient_code |-> pcode, lab_name |-> name,
     lab_date |-> date, lab_value |-> value]

InitLabTables(PT, LT) ==
    /\ patients \in PT
    /\ labs \in LT
    /\ pc = "labs_loaded"
    /\ visits = <<>>
    /\ v2 = <<>>
    /\ egfr_endpoints = <<>>
    /\ remission = <<>>
    /\ kfre_args = <<>>
    /\ kfre_out = <<>>
    /\ NoSlopes
    /\ NoMerge

\* Cohort for the closest-record extraction: albumin records of one patient
\* at 0, 90 and 100 days either side of the anchor (day 100; 2020-01-11 and
\* 2020-07-09 are days 10 and 190), with and without a value, each date with
\* a value of its own, among records of other names, of other patients and
\* without a date
LabRows ==
    {LRow("A", "p1", "Albumin", 20200111, v) : v \in {41, NaN}}
    \cup {LRow("A", "p1", "Albumin", D100, v) : v \in {40, NaN, BadText}}
    \cup {LRow("A", "p1", "Albumin", 20200709, v) : v \in {42, NaN}}
    \cup {LRow("A", "p1", "Albumin", D0, 43), LRow("A", "p1", "Albumin", D200, 44),
          LRow("A", "p1", "Albumin", BadText, 45), LRow("A", "p1", "Urine albumin", D100, 3),
          LRow("A", "p1", "Phosphorus", D100, 1), LRow("A", "p1", "Creatinine", D100, 88),
          LRow("A", "p1", StrNaN, D100, 46),
          LRow("B", "p1", "Albumin", D100, 35), LRow("A", "p2", "Albumin", D100, 20)}

InitLabs ==
    InitLabTables(PatientTables({ARow("A", "p1", 100), ARow("A", "p1", NaT)},
                                {ARow("B", "p1", 100)}),
                  SeqsUpTo(LabRows, MaxLabs))

\* Cohort for the unit conversion: three anchored patients, each with at most
\* one record per covariate, values in either unit.
\* the records of one covariate, the first of them taken d days after the
\* anchor and each later one a day on: for each patient one of the values, or none
UnitLabs(name, d, vals1, vals2, vals3) ==
    LET opt(cc, pcode, k, vals) ==
            {IF v = PyNone THEN <<>> ELSE <<LRow(cc, pcode, name, D100 + d + k, v)>> :
                v \in vals}
    IN  {a \o b \o c : a \in opt("A", "p1", 0, vals1), b \in opt("A", "p2", 1, vals2),
                       c \in opt("B", "p1", 2, vals3)}

InitUnits ==
    InitLabTables(
        {<<ARow("A", "p1", 100), ARow("A", "p2", 100), ARow("B", "p1", 100)>>},
        {a \o p \o b \o c :
            a \in UnitLabs("Albumin", 0, {PyNone, 4, 12, 40}, {PyNone, 4, 10, 40}, {4, 38, NaN}),
            p \in UnitLabs("Phosphorus", 3, {PyNone, 1, 4}, {1, 4}, {3}),
            b \in UnitLabs("HCO3", 6, {2, 24}, {PyNone}, {PyNone}),
            c \in UnitLabs("Calcium", 7, {PyNone, 2, 9}, {2, 9}, {5, NaN})})

\* Cohort for the slopes: the timeline of six patients anchored on day 0,
\* each with one of a few visit histories <<day, eGFR>>: none, a single
\* visit, two or three visits on different days, two visits on the anchor
\* day, two on the same later day, and histories with a visit before the
\* anchor or without an eGFR
SlopeTimeline(cc, pcode, history) ==
    [k \in 1..Len(history) |->
        v2_row(VRow(cc, pcode, "IGAN", history[k][1], to_num(history[k][2]), NaN),
               [baseline_anchor |-> 0, baseline_egfr |-> 60 * FP,
                baseline_upcr_final |-> NaN, sex |-> "M", birth_year |-> 1980 * FP,
                module |-> "IGAN"])]

InitSlopes ==
    /\ LET Histories ==
           <<{<<>>, <<<<0, 50>>>>, <<<<0, 50>>, <<731, 40>>>>, <<<<0, 50>>, <<0, 40>>>>,
              <<<<365, 50>>, <<365, 40>>>>, <<<<-30, 55>>, <<0, 50>>, <<365, NaN>>>>,
              <<<<731, 45>>, <<0, 60>>, <<365, 50>>>>},
             {<<>>, <<<<0, 50>>, <<731, 40>>>>, <<<<0, 50>>, <<0, 40>>>>,
              <<<<0, 60>>, <<365, 50>>, <<731, 45>>>>},
             {<<<<0, 50>>>>, <<<<0, 50>>, <<365, 45>>>>},
             {<<>>, <<<<0, 50>>, <<365, 50>>>>},
             {<<>>, <<<<0, 60>>, <<365, 50>>, <<731, 45>>>>},
             {<<>>, <<<<-30, 60>>, <<365, 50>>, <<731, 48>>>>}>>
       IN  \E h1 \in Histories[1], h2 \in Histories[2], h3 \in Histories[3],
              h4 \in Histories[4], h5 \in Histories[5], h6 \in Histories[6] :
              v2 = SlopeTimeline("B", "p1", h1) \o SlopeTimeline("A", "p1", h2)
                   \o SlopeTimeline("A", "p2", h3) \o SlopeTimeline("A", "p3", h4)
                   \o SlopeTimeline("B", "p2", h5) \o SlopeTimeline("B", "p3", h6)
    /\ NoMerge
    /\ HAS_STATSMODELS \in BOOLEAN
    /\ fit_raises \in BOOLEAN
    /\ slope_results = <<>>
    /\ per_patient_slopes = <<>>
    /\ slope_files = {}
    /\ pc = "slopes"
    /\ patients = <<>>
    /\ visits = <<>>
    /\ egfr_endpoints = <<>>
    /\ remission = <<>>
    /\ kfre_args = <<>>
    /\ kfre_out = <<>>
    /\ labs = <<>>

\* Center directories for merge_all.  Each is an export of one site: center
\* A exported twice (in the first export every patient code is a number, the
\* second has the code P7 as well, and patient 101 with another sex), center
\* B with a row twice in one file, a site with blank codes, a site whose
\* patients file has no module column, a directory that does not exist.
MaxCenters == 2

CenterDirs ==
    LET P(cc, pcode, sex) ==
            [center_code |-> cc, module |-> "IGAN", patient_code |-> pcode, sex |-> sex]
        V(cc, pcode, d, egfr) ==
            [center_code |-> cc, module |-> "IGAN", patient_code |-> pcode,
             visit_date |-> d, egfr |-> egfr]
        L(cc, pcode, d, name, value) ==
            [center_code |-> cc, module |-> "IGAN", patient_code |-> pcode,
             lab_date |-> d, lab_name |-> name, lab_value |-> value]
        PCols == {"center_code", "module", "patient_code", "sex"}
        VCols == {"center_code", "module", "patient_code", "visit_date", "egfr"}
        LCols == {"center_code", "module", "patient_code", "lab_date", "lab_name", "lab_value"}
        File(cols, rows) == [columns |-> cols, rows |-> rows]
        Dir(path, files) == [path |-> path, exists |-> TRUE, files |-> files]
    IN  {Dir("c1",
             [f \in {"patients_baseline.csv", "visits_long.csv", "labs_long.csv"} |->
                 CASE f = "patients_baseline.csv" ->
                          File(PCols, <<P("A", "101", "M"), P("A", "102", "F")>>)
                   [] f = "visits_long.csv" ->
                          File(VCols, <<V("A", "101", "2020-01-01", "50"),
                                        V("A", "101", "2020-01-01", "40"),
                                        V("A", "102", "2020-04-10", "60")>>)
                   [] f = "labs_long.csv" ->
                          File(LCols, <<L("A", "101", "2020-01-01", "Albumin", "4.0"),
                                        L("A", "101", "2020-01-01", "Calcium", "9.5"),
                                        L("A", "101", "2020-01-01", "Albumin", "4.1")>>)]),
         Dir("c2",
             [f \in {"patients_baseline.csv", "visits_long.csv"} |->
                 IF f = "patients_baseline.csv"
                 THEN File(PCols, <<P("A", "101", "F"), P("A", "P7", "M")>>)
                 ELSE File(VCols, <<V("A", "101", "2020-01-01", "55"),
                                    V("A", "P7", "2020-01-01", "70")>>)]),
         Dir("c3",
             [f \in {"patients_baseline.csv", "visits_long.csv"} |->
                 IF f = "patients_baseline.csv"
                 THEN File(PCols, <<P("B", "101", "M"), P("B", "101", "F")>>)
                 ELSE File(VCols, <<V("B", "101", "2020-04-10", "45")>>)]),
         Dir("c4",
             [f \in {"patients_baseline.csv", "labs_long.csv"} |->
                 IF f = "patients_baseline.csv"
                 THEN File(PCols, <<P("B", "P7", "F"), P("", "P7", "M"), P("B", "", "M")>>)
                 ELSE File(LCols \ {"lab_date", "lab_name"},
                           <<[center_code |-> "B", module |-> "IGAN", patient_code |-> "P7",
                              lab_value |-> "4.2"],
                             [center_code |-> "B", module |-> "IGAN", patient_code |-> "P7",
                              lab_value |-> "4.3"]>>)]),
         Dir("c5",
             [f \in {"patients_baseline.csv", "visits_long.csv"} |->
                 IF f = "patients_baseline.csv"
                 THEN File(PCols \ {"module"},
                           <<[center_code |-> "B", patient_code |-> "102", sex |-> "F"]>>)
                 ELSE File(VCols, <<V("B", "101", "2020-04-10", "45"),
                                    V("A", "101", "2020-04-10", "45")>>)]),
         Dir("c6",
             [f \in {"patients_baseline.csv"} |->
                 File(PCols, <<P("A", "P7", "F"), P("B", "P7", "M"), P("A", "102", "M")>>)]),
         [path |-> "c7", exists |-> FALSE, files |-> <<>>]}

InitMerge ==
    /\ center_dirs \in UNION {[1..n -> CenterDirs] : n \in 1..MaxCenters}
    /\ cdir = 1
    /\ raw = [t \in {TABLES[k].name : k \in 1..Len(TABLES)} |-> <<>>]
    /\ merged = <<>>
    /\ qc_warnings = <<>>
    /\ qc_center_summary = <<>>
    /\ qc_duplicates = <<>>
    /\ qc_collisions = <<>>
    /\ written = <<>>
    /\ previous = <<>>
    /\ error = ""
    /\ events = <<>>
    /\ outcomes = <<>>
    /\ pc = "scan"
    /\ kfre_args = <<>>
    /\ kfre_out = <<>>
    /\ labs = <<>>
    /\ NoSlopes
    /\ patients = <<>>
    /\ visits = <<>>
    /\ v2 = <<>>
    /\ egfr_endpoints = <<>>
    /\ remission = <<>>

-----------------------------------------------------------------------------
(* run_analysis.py over a directory of CSV files: load and normalize *)

\* the cell of a CSV file as read_csv delivers it: an empty cell is null, a
\* numeral is its number, a date text is kept (written here as yyyymmdd)
read_cell(t) ==
    LET value == [x \in {"0", "40", "45", "50", "55", "60", "70", "88", "100", "1980"} |->
                     CASE x = "0" -> 0 [] x = "40" -> 40 [] x = "45" -> 45 [] x = "50" -> 50
                       [] x = "55" -> 55 [] x = "60" -> 60 [] x = "70" -> 70 [] x = "88" -> 88
                       [] x = "100" -> 100 [] x = "1980" -> 1980]
    IN  CASE t = "" -> NaN
          [] t \in DOMAIN value -> value[t]
          [] t = "2020-01-01" -> D0
          [] t = "2020-04-10" -> D100
          [] t = "2020-07-19" -> D200
          [] t = "2021-01-01" -> 20210101
          [] OTHER -> BadText

\* lines 273-297: the exception that ends the load of directory dir (a
\* function from file name to the rows of the file), "" if there is none
load_error(dir) ==
    LET required == <<"patients_baseline.csv", "visits_long.csv", "labs_long.csv",
                      "meds_long.csv", "variants_long.csv">>
        keys == <<"center_code", "module", "patient_code">>
        columns(f) == DOMAIN dir[f][1]
        absent == SelectSeq(required, LAMBDA f : f \notin DOMAIN dir)
        lacking(f) == SelectSeq(keys, LAMBDA c : c \notin columns(f))
        bad == SelectSeq(required, LAMBDA f : lacking(f) # <<>>)
    IN  IF absent # <<>> THEN "FileNotFoundError: Missing file: " \o absent[1]
        ELSE IF bad # <<>>
        THEN "ValueError: Required column missing: " \o lacking(bad[1])[1]
        ELSE IF "baseline_date" \notin columns("patients_baseline.csv")
                \/ "visit_date" \notin columns("visits_long.csv")
        THEN "AttributeError: 'NoneType' object has no attribute 'dt'"
        ELSE ""

\* Load: read_csv of the six files, the check of the key columns, and the
\* normalisation of the columns. df.get of an absent column is None:
\* to_num(None) is NaN, to_dt(None) is None and has no .dt
Load ==
    /\ pc = "written"
    /\ LET err == load_error(written)
           text(r, c) == IF c \notin DOMAIN r THEN StrNone
                         ELSE IF r[c] = "" THEN StrNaN ELSE r[c]
           cell(r, c) == IF c \notin DOMAIN r THEN NaN ELSE read_cell(r[c])
           ps == written["patients_baseline.csv"]
           vs == written["visits_long.csv"]
           es == IF "events_long.csv" \in DOMAIN written
                 THEN written["events_long.csv"] ELSE <<>>
       IN  IF err # ""
           THEN /\ error' = err
                /\ pc' = "aborted"
                /\ UNCHANGED <<patients, visits, events>>
           ELSE /\ patients' = [i \in 1..Len(ps) |->
                       NormPatient(PRow(text(ps[i], "center_code"), text(ps[i], "patient_code"),
                                        text(ps[i], "module"), text(ps[i], "sex"),
                                        cell(ps[i], "birth_year"), cell(ps[i], "baseline_date"),
                                        cell(ps[i], "baseline_scr"),
                                        cell(ps[i], "baseline_upcr")))]
                /\ visits' = [i \in 1..Len(vs) |->
                       NormVisit(VRow(text(vs[i], "center_code"), text(vs[i], "patient_code"),
                                      text(vs[i], "module"), cell(vs[i], "visit_date"),
                                      cell(vs[i], "egfr"), cell(vs[i], "upcr")))]
                /\ events' = [i \in 1..Len(es) |->
                       [center_code |-> text(es[i], "center_code"),
                        patient_code |-> text(es[i], "patient_code"),
                        event_type |-> text(es[i], "event_type"),
                        event_date |-> to_dt(cell(es[i], "event_date"))]]
                /\ pc' = "normalized"
                /\ UNCHANGED error
    /\ UNCHANGED <<v2, egfr_endpoints, remission, outcomes>>
    /\ UNCHANGED <<kfre, labs, slopes, merge>>

\* the eGFR decline endpoints, where they follow the 12-month outcomes
EgfrDeclineAfterOutcomes ==
    /\ pc = "outcomes"
    /\ egfr_endpoints' = compute_egfr_decline_endpoints(v2)
    /\ pc' = "decline"
    /\ UNCHANGED <<patients, visits, v2, remission>>
    /\ UNCHANGED others

\* Merge manual events into endpoint table: pivot_table(index=key,
\* columns="event_type", values="event_date", aggfunc="min"), the columns
\* renamed manual_<type>, left-merged onto egfr_endpoints
ManualEvents ==
    /\ pc = "decline"
    /\ LET types == {events[i].event_type : i \in 1..Len(events)} \ {StrNaN}
           of(k, t) == {i \in 1..Len(events) : /\ SameKey(events[i], k)
                                               /\ events[i].event_type = t
                                               /\ events[i].event_date # NaT}
           earliest(k, t) == IF of(k, t) = {} THEN NaT
                             ELSE Min({events[i].event_date : i \in of(k, t)})
           column(t) == "manual_" \o t
           manual_events_wide(k) ==
               [c \in {column(t) : t \in types} |->
                   earliest(k, CHOOSE t \in types : column(t) = c)]
       IN  egfr_endpoints' =
               IF events = <<>> THEN egfr_endpoints
               ELSE [i \in 1..Len(egfr_endpoints) |->
                        egfr_endpoints[i] @@ manual_events_wide(egfr_endpoints[i])]
    /\ pc' = "events"
    /\ UNCHANGED <<patients, visits, v2, remission, run>>
    /\ UNCHANGED <<kfre, labs, slopes, merge>>

\* Directories for a whole run, merge_all then run_analysis on its output, or
\* run_analysis on a directory supplied as it is.  The center directories
\* are exports of center A with its events in several orders, an export
\* without the optional tables, one whose patient has creatinine 0, one
\* whose patients file has no baseline_date column, and one without a visit
\* a year after the baseline.  A supplied directory is
\* the files of one of these, or such files with a table or a key column
\* taken away.  Patient codes are not numerals, every patients file has a sex
\* column and every event has a type and a date.
InitRun ==
    LET P(cc, scr) ==
            [center_code |-> cc, module |-> "IGAN", patient_code |-> "p1", sex |-> "M",
             birth_year |-> "1980", baseline_date |-> "2020-01-01", baseline_scr |-> scr]
        V(cc, d, egfr) ==
            [center_code |-> cc, module |-> "IGAN", patient_code |-> "p1",
             visit_date |-> d, egfr |-> egfr]
        O(cc) == [center_code |-> cc, module |-> "IGAN", patient_code |-> "p1"]
        E(cc, t, d) == O(cc) @@ [event_type |-> t, event_date |-> d]
        File(rows) == [columns |-> DOMAIN rows[1], rows |-> rows]
        Files(cc, ps, vs, es) ==
            [f \in {TABLES[k].file : k \in 1..Len(TABLES)} |->
                CASE f = "patients_baseline.csv" -> File(ps)
                  [] f = "visits_long.csv" -> File(vs)
                  [] f = "labs_long.csv" ->
                         File(<<O(cc) @@ [lab_date |-> "2020-01-01", lab_name |-> "Albumin",
                                          lab_value |-> "40"]>>)
                  [] f = "meds_long.csv" ->
                         File(<<O(cc) @@ [drug_name |-> "A", start_date |-> "2020-01-01"]>>)
                  [] f = "variants_long.csv" ->
                         File(<<O(cc) @@ [gene |-> "A", variant |-> "B"]>>)
                  [] f = "events_long.csv" -> File(es)]
        Without(files, names) == [f \in DOMAIN files \ names |-> files[f]]
        Dir(path, files) == [path |-> path, exists |-> TRUE, files |-> files]
        year(cc) == <<V(cc, "2020-01-01", "100"), V(cc, "2020-04-10", "50"),
                      V(cc, "2021-01-01", "50")>>
        late == E("A", "dialysis", "2020-04-10")
        early == E("A", "dialysis", "2020-01-01")
        death == E("A", "death", "2020-07-19")
        optional == {"labs_long.csv", "meds_long.csv", "variants_long.csv"}
        RunDirs ==
            {Dir("r1", Files("A", <<P("A", "88")>>, year("A"), es)) :
                es \in {<<early, late>>, <<late, early>>, <<death, late>>, <<late>>}}
            \cup {Dir("r2", Without(Files("A", <<P("A", "88")>>, year("A"), <<early, death>>),
                                    optional)),
                  Dir("r3", Files("B", <<P("B", "0")>>, year("B"),
                                  <<E("B", "dialysis", "2020-04-10")>>)),
                  Dir("r4", Files("B", <<[c \in DOMAIN P("B", "88") \ {"baseline_date"} |->
                                             P("B", "88")[c]]>>,
                                  year("B"), <<E("B", "death", "2020-04-10")>>)),
                  Dir("r5", Files("B", <<P("B", "88")>>, SubSeq(year("B"), 1, 2),
                                  <<E("B", "death", "2020-04-10")>>))}
        rows(files) == [f \in DOMAIN files |-> files[f].rows]
        complete == Files("A", <<P("A", "88")>>, year("A"), <<late, early>>)
        DataDirs ==
            {rows(d.files) : d \in RunDirs}
            \cup {rows(Without(complete, {f})) : f \in DOMAIN complete}
            \cup {[rows(complete) EXCEPT ![f] =
                       <<[c \in DOMAIN complete[f].rows[1] \ {k} |-> complete[f].rows[1][c]]>>] :
                     f \in {"visits_long.csv", "meds_long.csv"},
                     k \in {"center_code", "module", "patient_code"}}
    IN  /\ \/ /\ center_dirs \in UNION {[1..n -> RunDirs] : n \in 1..MaxCenters}
              /\ written = <<>>
              /\ pc = "scan"
           \/ /\ center_dirs = <<>>
              /\ written \in DataDirs
              /\ pc = "written"
        /\ cdir = 1
        /\ raw = [t \in {TABLES[k].name : k \in 1..Len(TABLES)} |-> <<>>]
        /\ merged = <<>>
        /\ qc_warnings = <<>>
        /\ qc_center_summary = <<>>
        /\ qc_duplicates = <<>>
        /\ qc_collisions = <<>>
        /\ previous = <<>>
        /\ error = ""
        /\ events = <<>>
        /\ outcomes = <<>>
        /\ kfre_args = <<>>
        /\ kfre_out = <<>>
        /\ labs = <<>>
        /\ NoSlopes
        /\ patients = <<>>
        /\ visits = <<>>
        /\ v2 = <<>>
        /\ egfr_endpoints = <<>>
        /\ remission = <<>>

-----------------------------------------------------------------------------
(* The run *)

Next ==
    \/ Normalize
    \/ DeriveAnchors
    \/ BuildTimeline
    \/ EgfrDecline
    \/ IganRemission

Spec == Init /\ [][Next]_vars
SpecBaseline == InitBaseline /\ [][Next]_vars
SpecRemission == InitRemission /\ [][Next]_vars

\* the run up to the 12-month outcomes
NextOutcomes ==
    \/ Normalize
    \/ DeriveAnchors
    \/ BuildTimeline
    \/ Outcomes12m

SpecOutcomes == InitOutcomes /\ [][NextOutcomes]_vars

\* the two KFRE calls on one row's values
NextKfre ==
    \/ ApplyKfre4
    \/ ApplyKfre8

SpecKfre == InitKfre /\ [][NextKfre]_vars

\* the baseline lab extraction and the unit auto-conversion
NextLabs ==
    \/ ExtractLabs
    \/ UnitConversion

SpecLabs == InitLabs /\ [][NextLabs]_vars
SpecUnits == InitUnits /\ [][NextLabs]_vars

\* the slope block and the writing of its two files
NextSlopes ==
    \/ LmeSlope
    \/ PerPatientOls
    \/ WriteSlopes

SpecSlopes == InitSlopes /\ [][NextSlopes]_vars

\* merge_all of merge_centers.py
NextMerge ==
    \/ ScanCenter
    \/ MergeTables
    \/ CollisionCheck
    \/ WriteMerged
    \/ RunAgain
    \/ Load

SpecMerge == InitMerge /\ [][NextMerge]_vars

\* merge_all, then run_analysis on the directory it wrote
NextRun ==
    \/ ScanCenter
    \/ MergeTables
    \/ CollisionCheck
    \/ WriteMerged
    \/ Load
    \/ DeriveAnchors
    \/ BuildTimeline
    \/ Outcomes12m
    \/ EgfrDeclineAfterOutcomes
    \/ ManualEvents

SpecRun == InitRun /\ [][NextRun]_vars

-----------------------------------------------------------------------------
(* Properties *)

Anchored == pc \in {"anchored", "timeline", "decline", "remission"}
TimelineBuilt == pc \in {"timeline", "decline", "remission"}
DeclineDone == pc \in {"decline", "remission"}
RemissionDone == pc = "remission"

Rows(t) == {t[i] : i \in 1..Len(t)}

\* timeline rows of the patient of record e whose eGFR / baseline eGFR is
\* below num/100 (baseline present and positive, eGFR present)
Crossing(e, num) ==
    {i \in 1..Len(v2) :
        /\ v2[i].center_code = e.center_code /\ v2[i].patient_code = e.patient_code
        /\ v2[i].egfr # NaN /\ v2[i].baseline_egfr # NaN /\ v2[i].baseline_egfr > 0
        /\ 100 * v2[i].egfr < num * v2[i].baseline_egfr}

\* reached/date/days of an endpoint are those of the earliest row of S
FirstOf(S, reached, date, days) ==
    /\ reached = (S # {})
    /\ reached =>
          \E i \in S :
              /\ \A j \in S : v2[i].days_from_baseline <= v2[j].days_from_baseline
              /\ days = v2[i].days_from_baseline
              /\ date = v2[i].visit_date
    /\ ~reached => (date = NaT /\ days = NaN)

\* C1: in the eGFR-decline table, for each threshold (0.60 and 0.43) the
\* endpoint is reached iff some eligible timeline row of the patient has
\* eGFR / baseline eGFR strictly below it, and then date and days are those
\* of the qualifying row with the smallest days_from_baseline; otherwise they
\* are null.
C1_DeclineFirstCrossing ==
    DeclineDone =>
        \A e \in Rows(egfr_endpoints) :
            /\ FirstOf(Crossing(e, 60), e.reached_40pct, e.first_date_40pct, e.days_to_40pct)
            /\ FirstOf(Crossing(e, 43), e.reached_57pct, e.first_date_57pct, e.days_to_57pct)

\* a patient crosses 40% on one visit only, and has a later visit back at or
\* above the threshold
C1_Witness ==
    /\ DeclineDone
    /\ \E e \in Rows(egfr_endpoints) :
          /\ e.reached_40pct /\ ~e.reached_57pct
          /\ \E i \in 1..Len(v2) :
                /\ v2[i].center_code = e.center_code
                /\ v2[i].patient_code = e.patient_code
                /\ v2[i].days_from_baseline > e.days_to_40pct
                /\ v2[i].egfr # NaN
                /\ 100 * v2[i].egfr >= 60 * v2[i].baseline_egfr

KeysOf(t) == {<<t[i].center_code, t[i].patient_code>> : i \in 1..Len(t)}

\* the patient with key k has an anchor, a positive baseline eGFR and a dated
\* visit with an eGFR
DeclineInputs(k) ==
    /\ \E p \in Rows(patients) :
          /\ <<p.center_code, p.patient_code>> = k
          /\ p.baseline_anchor # NaT
          /\ p.baseline_egfr # NaN /\ p.baseline_egfr > 0
    /\ \E v \in Rows(visits) :
          /\ <<v.center_code, v.patient_code>> = k
          /\ v.visit_date # NaT /\ v.egfr # NaN

VisitDates(p) ==
    {v.visit_date : v \in {w \in Rows(visits) : SameKey(w, p) /\ w.visit_date # NaT}}

\* C6: the anchor of every patient is the declared baseline_date when that
\* is present and parseable, otherwise the minimum visit_date of the patient's
\* dated visits, and undefined only when the patient has neither.
C6_AnchorDate ==
    Anchored =>
        \A p \in Rows(patients) :
            /\ p.baseline_date # NaT => p.baseline_anchor = p.baseline_date
            /\ (p.baseline_date = NaT /\ VisitDates(p) # {}) =>
                  /\ p.baseline_anchor \in VisitDates(p)
                  /\ \A d \in VisitDates(p) : p.baseline_anchor <= d
            /\ (p.baseline_date = NaT /\ VisitDates(p) = {}) => p.baseline_anchor = NaT

\* a declared date wins although a visit of the patient is earlier
C6_Witness ==
    /\ Anchored
    /\ \E p \in Rows(patients) :
          /\ p.baseline_date # NaT
          /\ p.baseline_anchor = p.baseline_date
          /\ \E d \in VisitDates(p) : d < p.baseline_date

\* (dated visit row, anchored patient row) pairs with equal keys
TimelinePairs ==
    {<<i, j>> \in (1..Len(visits)) \X (1..Len(patients)) :
        /\ visits[i].center_code = patients[j].center_code
        /\ visits[i].patient_code = patients[j].patient_code
        /\ visits[i].visit_date # NaT
        /\ patients[j].baseline_anchor # NaT}

\* timeline row r is the join of visit v and patient p
IsTimelineRow(r, v, p) ==
    /\ r.center_code = v.center_code /\ r.patient_code = v.patient_code
    /\ r.visit_date = v.visit_date /\ r.egfr = v.egfr /\ r.upcr = v.upcr
    /\ r.baseline_anchor = p.baseline_anchor
    /\ r.baseline_egfr = p.baseline_egfr
    /\ r.baseline_upcr_final = p.baseline_upcr_final
    /\ r.days_from_baseline = v.visit_date - p.baseline_anchor
    /\ 2 * Abs(r.time_yr * 36525 - r.days_from_baseline * 100 * FP) <= 36525

\* C10: the timeline has exactly one row per (dated visit row, patient) pair
\* with equal (center_code, patient_code) whose patient has an anchor, and no
\* other row; each row carries days_from_baseline = visit_date - anchor
\* (negative before the anchor) and time_yr = days / 365.25.
C10_Timeline ==
    TimelineBuilt =>
        /\ Len(v2) = Cardinality(TimelinePairs)
        /\ \A pr \in TimelinePairs :
              \E k \in 1..Len(v2) : IsTimelineRow(v2[k], visits[pr[1]], patients[pr[2]])
        /\ \A k \in 1..Len(v2) :
              \E pr \in TimelinePairs : IsTimelineRow(v2[k], visits[pr[1]], patients[pr[2]])

\* a visit before the anchor is in the timeline with negative days, while an
\* undated visit and a visit of a patient absent from the patients table are not
C10_Witness ==
    /\ TimelineBuilt
    /\ \E r \in Rows(v2) : r.days_from_baseline < 0
    /\ \E v \in Rows(visits) :
          v.visit_date = NaT \/ <<v.center_code, v.patient_code>> \notin KeysOf(patients)

-----------------------------------------------------------------------------
(* Properties of the remission endpoints *)

IsIgan(p) == Upper(p.module) = "IGAN"

\* timeline rows of patient p with a UPCR
UpcrRows(p) ==
    {i \in 1..Len(v2) :
        /\ v2[i].center_code = p.center_code /\ v2[i].patient_code = p.patient_code
        /\ v2[i].upcr # NaN}

RemissionOf(p) == {e \in Rows(remission) : SameKey(e, p)}

\* C3: a remission record exists only for patients whose module tag in the
\* patients table is "IGAN" (any case), and every non-null-UPCR visit of such
\* a patient takes part in the scan whatever the module column of the visit
\* row says (so such a patient with a non-null-UPCR timeline row has a record).
C3_RemissionByPatientModule ==
    RemissionDone =>
        \A p \in Rows(patients) :
            /\ RemissionOf(p) # {} => IsIgan(p)
            /\ (IsIgan(p) /\ UpcrRows(p) # {}) => RemissionOf(p) # {}

\* C4: for every IgAN patient with a non-null-UPCR timeline row, reached_cr
\* is true iff some such row has UPCR < 300, dated at the qualifying row with
\* the smallest days_from_baseline; otherwise false with null date and days.
C4_CompleteRemission ==
    RemissionDone =>
        \A p \in Rows(patients) :
            (IsIgan(p) /\ UpcrRows(p) # {}) =>
                \E e \in RemissionOf(p) :
                    FirstOf({i \in UpcrRows(p) : v2[i].upcr < 300 * FP},
                            e.reached_cr, e.first_date_cr, e.days_to_cr)

\* C5: for every IgAN patient with a non-null-UPCR timeline row: with the
\* baseline UPCR missing or <= 0, reached_pr is false with null date and days;
\* otherwise reached_pr is true iff some non-null-UPCR row has
\* UPCR <= 0.5 x baseline and UPCR < 1000, recorded at the earliest such row.
C5_PartialRemission ==
    RemissionDone =>
        \A p \in Rows(patients) :
            (IsIgan(p) /\ UpcrRows(p) # {}) =>
                \E e \in RemissionOf(p) :
                    LET b == p.baseline_upcr_final
                    IN  FirstOf(IF b = NaN \/ b <= 0 THEN {}
                                ELSE {i \in UpcrRows(p) :
                                         2 * v2[i].upcr <= b /\ v2[i].upcr < 1000 * FP},
                                e.reached_pr, e.first_date_pr, e.days_to_pr)

-----------------------------------------------------------------------------
(* Properties of the baseline eGFR / UPCR resolution *)

\* the values of column col on the earliest-dated visit row(s) of patient p;
\* null when the patient has no dated visit
EarliestVisitValues(p, col) ==
    IF VisitDates(p) = {} THEN {NaN}
    ELSE {v[col] : v \in {w \in Rows(visits) :
                             /\ SameKey(w, p) /\ w.visit_date # NaT
                             /\ \A d \in VisitDates(p) : w.visit_date <= d}}

\* a text cell that is missing
StrIsNa(s) == s = StrNaN \/ s = StrNone

\* C7: the anchor eGFR is the CKD-EPI value only when creatinine, age (birth
\* year and anchor date) and sex are all present; when any of them is
\* missing, a missing sex included, it is the first-visit eGFR (and null only
\* when that is unavailable too).
C7_AnchorEgfrSource ==
    Anchored =>
        \A p \in Rows(patients) :
            LET complete == /\ p.baseline_scr # NaN
                            /\ p.birth_year # NaN /\ p.baseline_anchor # NaT
                            /\ ~StrIsNa(p.sex)
            IN  /\ complete =>
                      (p.baseline_egfr_calc # NaN /\ p.baseline_egfr = p.baseline_egfr_calc)
                /\ ~complete => p.baseline_egfr = p.first_visit_egfr

\* C8: when the anchor eGFR falls back to visit data it is the eGFR recorded
\* on the patient's earliest-dated visit row: null if that row has none, never
\* the eGFR of a later visit.
C8_FallbackFromEarliestVisit ==
    Anchored =>
        \A p \in Rows(patients) :
            p.baseline_egfr_calc = NaN =>
                p.baseline_egfr \in EarliestVisitValues(p, "egfr")

\* C9: baseline_upcr_final is the declared baseline UPCR when that is
\* non-null, otherwise the UPCR recorded on the patient's earliest-dated visit
\* row (null if that row has none).
C9_AnchorUpcr ==
    Anchored =>
        \A p \in Rows(patients) :
            /\ p.baseline_upcr # NaN => p.baseline_upcr_final = p.baseline_upcr
            /\ p.baseline_upcr = NaN =>
                  p.baseline_upcr_final \in EarliestVisitValues(p, "upcr")

-----------------------------------------------------------------------------
(* Properties of the KFRE *)

Kfre4Done == pc \in {"kfre4", "kfre8"}
Kfre8Done == pc = "kfre8"

\* a numeric argument that is missing, not a number or not finite
NumInvalid(x) == x \in {PyNone, NaN, BadText, PosInf}

\* some required argument of the four-variable equation is missing or invalid
Invalid4(a) ==
    \/ StrIsNa(a.sex)
    \/ \E x \in {a.age, a.egfr, a.upcr} : NumInvalid(x) \/ x <= 0

Invalid8(a) ==
    \/ Invalid4(a)
    \/ \E x \in {a.albumin, a.phosphate, a.bicarbonate, a.calcium} : NumInvalid(x)

\* C11: kfre_4var and kfre_8var return (None, None) whenever a required
\* argument (sex included) is missing, a numeric argument is not finite, or
\* age, eGFR or UPCR is <= 0; a pair of risks comes back only when every
\* required argument is present and valid.  (No call raises: each is total.)
C11_KfreNullUnlessValid ==
    /\ Kfre4Done => (Invalid4(kfre_args) => kfre_out.kfre4 = NoRisk)
    /\ Kfre8Done => (Invalid8(kfre_args) => kfre_out.kfre8 = NoRisk)

IsRiskPair(r) == r # NoRisk /\ r[1] \in 0..R5 /\ r[2] \in 0..R5

\* C12 as stated: for valid arguments the pair lies in [0,1] x [0,1] and
\* risk_5yr > risk_2yr strictly, after the rounding to 5 decimal places.
C12_RiskStrictlyOrdered ==
    /\ (Kfre4Done /\ ~Invalid4(kfre_args)) =>
          (IsRiskPair(kfre_out.kfre4) /\ kfre_out.kfre4[2] > kfre_out.kfre4[1])
    /\ (Kfre8Done /\ ~Invalid8(kfre_args)) =>
          (IsRiskPair(kfre_out.kfre8) /\ kfre_out.kfre8[2] > kfre_out.kfre8[1])

\* C12, amended: for valid arguments the pair lies in [0,1] x [0,1] and
\* risk_5yr >= risk_2yr after the rounding to 5 decimal places; the two are
\* equal where both round to the same value.
C12_RiskOrdered ==
    /\ (Kfre4Done /\ ~Invalid4(kfre_args)) =>
          (IsRiskPair(kfre_out.kfre4) /\ kfre_out.kfre4[2] >= kfre_out.kfre4[1])
    /\ (Kfre8Done /\ ~Invalid8(kfre_args)) =>
          (IsRiskPair(kfre_out.kfre8) /\ kfre_out.kfre8[2] >= kfre_out.kfre8[1])

\* valid arguments whose two four-variable risks round to the same value,
\* next to an eight-variable pair that is still distinct
C12_Witness ==
    /\ Kfre8Done
    /\ ~Invalid8(kfre_args)
    /\ kfre_out.kfre4[1] = kfre_out.kfre4[2]
    /\ kfre_out.kfre8[1] < kfre_out.kfre8[2]

-----------------------------------------------------------------------------
(* Properties of the baseline lab extraction and the unit conversion *)

LabsExtracted == pc = "labs"

\* the dated records of patient p that match a keyword of lab_key and lie
\* within 90 days of the anchor
WindowRecords(p, lab_key) ==
    {i \in 1..Len(labs) :
        /\ SameKey(labs[i], p)
        /\ KeywordsIn(labs[i].lab_name) \cap _LAB_KEYWORDS[lab_key] # {}
        /\ labs[i].lab_date # NaT /\ p.baseline_anchor # NaT
        /\ Abs(labs[i].lab_date - p.baseline_anchor) <= 90}

\* the lab_value of the closest of those records, the first in input order
\* among the closest; null without any
ClosestValue(p, lab_key) ==
    LET W == WindowRecords(p, lab_key)
        near == {i \in W : \A j \in W : Abs(labs[i].lab_date - p.baseline_anchor)
                                          <= Abs(labs[j].lab_date - p.baseline_anchor)}
    IN  IF W = {} THEN NaN ELSE labs[Min(near)].lab_value

\* C13: for each patient and each KFRE-8 covariate the extracted value is the
\* lab_value of the keyword-matching record closest to the anchor among those
\* within 90 days, the first in input order among equally close ones; records
\* outside the window are not used and no farther record's value replaces
\* the closest record's.
C13_ClosestLabRecord ==
    LabsExtracted =>
        \A p \in Rows(patients) :
            /\ p.lab_albumin = ClosestValue(p, "albumin")
            /\ p.lab_phosphate = ClosestValue(p, "phosphate")
            /\ p.lab_bicarbonate = ClosestValue(p, "bicarbonate")
            /\ p.lab_calcium = ClosestValue(p, "calcium")

\* the non-null values of a lab column of the patients table, by row
NonNull(col) == {i \in 1..Len(patients) : patients[i][col] # NaN}

\* twice the median of those values: the sum of the lower and the upper
\* middle value (the same value when their number is odd)
Median2Of(col) ==
    LET I == NonNull(col)
        n == Cardinality(I)
        below(x) == Cardinality({i \in I : patients[i][col] < x})
        above(x) == Cardinality({i \in I : patients[i][col] > x})
        vals == {patients[i][col] : i \in I}
        lower == CHOOSE x \in vals : below(x) <= (n - 1) \div 2 /\ above(x) <= n \div 2
        upper == CHOOSE x \in vals : below(x) <= n \div 2 /\ above(x) <= (n - 1) \div 2
    IN  lower + upper

\* new is old x num / den to the nearest unit, null staying null
Rescaled(old, new, num, den) ==
    IF old = NaN THEN new = NaN
    ELSE new # NaN /\ 2 * Abs(new * den - old * num) <= den

\* every row of column col is rescaled by num / den if cond, and none otherwise
AllOrNothing(col, cond, num, den) ==
    \A i \in 1..Len(patients) :
        IF cond THEN Rescaled(patients[i][col], patients'[i][col], num, den)
        ELSE patients'[i][col] = patients[i][col]

\* C14: the unit conversion is all-or-nothing per column: albumin is divided
\* by 10 in every row iff the median of its non-null values is > 10,
\* phosphate is multiplied by 3.097 in every row iff its median is < 3,
\* calcium by 4.008 in every row iff its median is < 5, and bicarbonate is
\* never rescaled; no row is converted on its own value.
C14_UnitConversionAllOrNothing ==
    [][LabsExtracted =>
        /\ AllOrNothing("lab_albumin",
               NonNull("lab_albumin") # {} /\ Median2Of("lab_albumin") > 2 * 10 * FP, 1, 10)
        /\ AllOrNothing("lab_phosphate",
               NonNull("lab_phosphate") # {} /\ Median2Of("lab_phosphate") < 2 * 3 * FP,
               3097, 1000)
        /\ AllOrNothing("lab_calcium",
               NonNull("lab_calcium") # {} /\ Median2Of("lab_calcium") < 2 * 5 * FP,
               4008, 1000)
        /\ AllOrNothing("lab_bicarbonate", FALSE, 1, 1)]_vars

\* the value of patient p's record named name
RecordValue(p, name) ==
    {labs[i].lab_value : i \in {j \in 1..Len(labs) : SameKey(labs[j], p)
                                                     /\ labs[j].lab_name = name}}

\* after the conversion: an albumin record of 4.0 was divided by 10 with its
\* column, a phosphate record of 1.0 stayed as it was because its column's
\* median is not below 3, and a bicarbonate of 2 stayed as it was
C14_Witness ==
    /\ pc = "units"
    /\ \E p \in Rows(patients) :
          4 * FP \in RecordValue(p, "Albumin") /\ p.lab_albumin = 400
    /\ \E p \in Rows(patients) :
          FP \in RecordValue(p, "Phosphorus") /\ p.lab_phosphate = FP
    /\ \E p \in Rows(patients) : p.lab_bicarbonate = 2 * FP

-----------------------------------------------------------------------------
(* Properties of the eGFR slopes *)

LmeDone == pc \in {"lme_done", "ols_done", "written"}
OlsDone == pc \in {"ols_done", "written"}

\* timeline rows with an eGFR and time_yr >= 0: all of them, and patient k's
Qualifying == {i \in 1..Len(v2) : v2[i].egfr # NaN /\ v2[i].time_yr >= 0}
QualifyingOf(k) == {i \in Qualifying : <<v2[i].center_code, v2[i].patient_code>> = k}

\* at least 10 qualifying observations from at least 5 distinct patients
LmePrecondition ==
    /\ Cardinality(Qualifying) >= 10
    /\ Cardinality({k \in KeysOf(v2) : QualifyingOf(k) # {}}) >= 5

Labelled(label) == \E r \in Rows(slope_results) : r.method = label

\* C15: the mixed-effects model is fitted only when there are at least 10
\* qualifying observations from at least 5 distinct patients; in every other
\* case, fewer than 10 observations included, the population slope output
\* holds a row labelled as skipped.
C15_LmeSkippedIsReported ==
    LmeDone =>
        /\ (Labelled("LME (random intercept per patient)") \/ Labelled("LME error"))
              => LmePrecondition
        /\ ~LmePrecondition => Labelled("LME skipped (< 5 patients)")

\* the row of patient k is as the fit of k's own qualifying rows: their number,
\* and for two rows at different times the slope of the line through them
OlsRowOfOwnData(e) ==
    LET I == QualifyingOf(<<e.center_code, e.patient_code>>)
    IN  /\ e.n_visits_used = Cardinality(I)
        /\ \A i, j \in I :
              (Cardinality(I) = 2 /\ v2[i].time_yr < v2[j].time_yr) =>
                  2 * Abs(e.slope_mL_yr * (v2[j].time_yr - v2[i].time_yr)
                          - (v2[j].egfr - v2[i].egfr) * FP)
                     <= v2[j].time_yr - v2[i].time_yr

\* C16: when the mixed-effects fit raises, the population slope output holds
\* exactly one row, labelled as an error, and the per-patient table is
\* computed afterwards all the same: it has the row of every patient with two
\* qualifying visits at different times, each fitted from the patient's own rows.
C16_FitFailureContained ==
    (LmeDone /\ HAS_STATSMODELS /\ LmePrecondition /\ fit_raises) =>
        /\ Len(slope_results) = 1 /\ Labelled("LME error")
        /\ OlsDone =>
              /\ \A e \in Rows(per_patient_slopes) : OlsRowOfOwnData(e)
              /\ \A k \in KeysOf(v2) :
                    (\E i, j \in QualifyingOf(k) : v2[i].time_yr # v2[j].time_yr)
                        => k \in KeysOf(per_patient_slopes)

\* the fit raised, its row is there and so are the per-patient slopes and
\* both files
C16_Witness ==
    /\ pc = "written"
    /\ fit_raises /\ Labelled("LME error")
    /\ Len(per_patient_slopes) >= 5
    /\ slope_files = {"egfr_slope_lme.csv", "egfr_slope_per_patient.csv"}

\* C17: a patient has a row in the per-patient table iff the patient has at
\* least 2 qualifying timeline rows; the row's n_visits_used is that number
\* and its slope is fitted from the patient's own rows; the line through
\* (t=0, y=50) and (t=2, y=40) has slope -5.0.
C17_PerPatientOls ==
    /\ polyfit(<<0, 2 * FP>>, <<50 * FP, 40 * FP>>, TRUE) = <<-5 * FP, 50 * FP>>
    /\ OlsDone =>
          /\ \A k \in KeysOf(v2) :
                (k \in KeysOf(per_patient_slopes)) <=> Cardinality(QualifyingOf(k)) >= 2
          /\ Cardinality(KeysOf(per_patient_slopes)) = Len(per_patient_slopes)
          /\ \A e \in Rows(per_patient_slopes) : OlsRowOfOwnData(e)

Merged == pc \in {"merged", "checked", "written"}
CollisionsChecked == pc \in {"checked", "written"}

TableDef(t) == TABLES[CHOOSE k \in 1..Len(TABLES) : TABLES[k].name = t]

\* the file of table t in directory d takes part in the merge
Accepted(d, t) ==
    /\ d.exists
    /\ TableDef(t).file \in DOMAIN d.files
    /\ \A k \in 1..Len(TableDef(t).req_cols) :
          TableDef(t).req_cols[k] \in d.files[TableDef(t).file].columns

RECURSIVE InputFrom(_, _)
\* the rows of table t as the files hold them, in center-directory order,
\* then file row order
InputFrom(dirs, t) ==
    IF dirs = <<>> THEN <<>>
    ELSE (IF Accepted(Head(dirs), t) THEN Head(dirs).files[TableDef(t).file].rows ELSE <<>>)
         \o InputFrom(Tail(dirs), t)

InputRows(t) == InputFrom(center_dirs, t)

\* the merged table t as text, a null being the empty cell
MergedRows(t) ==
    [i \in 1..Len(merged[t].rows) |->
        [c \in merged[t].columns |-> merged[t].rows[i][c][2]]]

\* the configured composite key of a row of table t, a column the row does
\* not have being empty
KeyOf(r, t) ==
    [k \in 1..Len(TableDef(t).dedup_key) |->
        IF TableDef(t).dedup_key[k] \in DOMAIN r THEN r[TableDef(t).dedup_key[k]] ELSE ""]

\* row o of the merged table is input row r
SameRow(o, r) == \A c \in DOMAIN o : o[c] = (IF c \in DOMAIN r THEN r[c] ELSE "")

\* the first input row of table t with the key of input row i
FirstOccurrence(t, i) ==
    InputRows(t)[CHOOSE j \in 1..i :
                    /\ KeyOf(InputRows(t)[j], t) = KeyOf(InputRows(t)[i], t)
                    /\ \A m \in 1..(j - 1) :
                          KeyOf(InputRows(t)[m], t) # KeyOf(InputRows(t)[i], t)]

\* in every accepted file of table t the key columns were read with one type
UniformTypes(t) ==
    \A c \in {"center_code", "patient_code"} :
        \A i, j \in 1..Len(raw[t]) :
            \A a \in 1..Len(raw[t][i].rows), b \in 1..Len(raw[t][j].rows) :
                raw[t][i].rows[a][c][1] = "nan" \/ raw[t][j].rows[b][c][1] = "nan"
                \/ raw[t][i].rows[a][c][1] = raw[t][j].rows[b][c][1]

\* C18: for every table, of the input rows that share the values of the
\* table's composite key exactly one is in the merged output, and it is the
\* first of them in input order; no key of the input is missing from the output.
C18_DedupKeepsFirst ==
    Merged =>
        \A t \in DOMAIN merged :
            \A i \in 1..Len(InputRows(t)) :
                /\ Cardinality({o \in 1..Len(MergedRows(t)) :
                                   KeyOf(MergedRows(t)[o], t) = KeyOf(InputRows(t)[i], t)}) = 1
                /\ \E o \in 1..Len(MergedRows(t)) :
                      SameRow(MergedRows(t)[o], FirstOccurrence(t, i))

\* C19: after the merge (center_code, patient_code) is unique in the merged
\* patients table and (center_code, patient_code, visit_date) in the merged
\* visits table, and two input patients with one patient_code under different
\* center codes are both in the merged patients table.
C19_KeysUniqueAfterMerge ==
    Merged =>
        /\ \A t \in {"patients_baseline", "visits_long"} :
              \A a, b \in 1..Len(MergedRows(t)) :
                  KeyOf(MergedRows(t)[a], t) = KeyOf(MergedRows(t)[b], t) => a = b
        /\ \A i, j \in 1..Len(InputRows("patients_baseline")) :
              LET r == InputRows("patients_baseline")[i]
                  q == InputRows("patients_baseline")[j]
              IN  r.patient_code = q.patient_code /\ r.center_code # q.center_code
                  => \E a, b \in 1..Len(MergedRows("patients_baseline")) :
                        /\ a # b
                        /\ KeyOf(MergedRows("patients_baseline")[a], "patients_baseline")
                           = KeyOf(r, "patients_baseline")
                        /\ KeyOf(MergedRows("patients_baseline")[b], "patients_baseline")
                           = KeyOf(q, "patients_baseline")

\* the center codes under which patient_code code stands in the merged
\* patients table
CentersOf(code) ==
    {MergedRows("patients_baseline")[i].center_code :
        i \in {j \in 1..Len(MergedRows("patients_baseline")) :
                  MergedRows("patients_baseline")[j].patient_code = code}} \ {""}

CollisionWarning == "[WARN] patient_code(s) appear in >1 center_code"

\* C20: a collision is recorded for a patient_code iff the code stands under
\* more than one center_code in the merged patients table; the entry lists
\* those center codes, a warning is added iff there is a collision, and the
\* check leaves every merged table as it was.
C20_CollisionsRecorded ==
    CollisionsChecked =>
        /\ \A code \in {MergedRows("patients_baseline")[i].patient_code :
                           i \in 1..Len(MergedRows("patients_baseline"))} \ {""} :
              /\ (\E e \in Rows(qc_collisions) : e.patient_code[2] = code)
                 <=> Cardinality(CentersOf(code)) > 1
              /\ \A e \in Rows(qc_collisions) :
                    e.patient_code[2] = code =>
                        /\ {e.center_codes[k][2] : k \in 1..Len(e.center_codes)} \ {""}
                           = CentersOf(code)
                        /\ e.n_centers = Cardinality(CentersOf(code))
        /\ (\E k \in 1..Len(qc_warnings) : qc_warnings[k] = CollisionWarning)
           <=> qc_collisions # <<>>
        /\ \A t \in DOMAIN merged :
              merged[t] = merge_table(TableDef(t), raw[t]).frame

\* the three statements for inputs whose key columns are read with one type
UniformC18 == (\A t \in DOMAIN raw : UniformTypes(t)) => C18_DedupKeepsFirst
UniformC19 == (\A t \in DOMAIN raw : UniformTypes(t)) => C19_KeysUniqueAfterMerge
UniformC20 == (\A t \in DOMAIN raw : UniformTypes(t)) => C20_CollisionsRecorded

\* C25: in every row of the eGFR-decline table reached_57pct implies
\* reached_40pct, and when both are reached days_to_40pct <= days_to_57pct.
C25_ThresholdNesting ==
    DeclineDone =>
        \A e \in Rows(egfr_endpoints) :
            /\ e.reached_57pct => e.reached_40pct
            /\ e.reached_40pct /\ e.reached_57pct => e.days_to_40pct <= e.days_to_57pct

\* a patient who reached the 40% endpoint at one visit and the 57% endpoint
\* at a later one
C25_Witness ==
    /\ DeclineDone
    /\ \E e \in Rows(egfr_endpoints) :
          e.reached_40pct /\ e.reached_57pct /\ e.days_to_40pct < e.days_to_57pct

\* C26: every reached endpoint (40% decline, 57% decline, CR, PR) has
\* days_to >= 0: no endpoint is dated before the patient's baseline anchor.
C26_EndpointsNotBeforeAnchor ==
    /\ DeclineDone =>
          \A e \in Rows(egfr_endpoints) :
              /\ e.reached_40pct => e.days_to_40pct >= 0
              /\ e.reached_57pct => e.days_to_57pct >= 0
    /\ RemissionDone =>
          \A e \in Rows(remission) :
              /\ e.reached_cr => e.days_to_cr >= 0
              /\ e.reached_pr => e.days_to_pr >= 0

\* the directories scanned so far that exist, in order: one CenterSummary
\* row each
ScannedDirs == SelectSeq(SubSeq(center_dirs, 1, cdir - 1), LAMBDA d : d.exists)

HasWarning(w) == \E k \in 1..Len(qc_warnings) : qc_warnings[k] = w

\* the required columns of table t that the file of directory d lacks
MissingCols(d, t) ==
    SelectSeq(TableDef(t).req_cols,
              LAMBDA c : c \notin d.files[TableDef(t).file].columns)

OwnCenterCodes(d) ==
    IF Accepted(d, "patients_baseline")
    THEN {d.files["patients_baseline.csv"].rows[i].center_code :
             i \in 1..Len(d.files["patients_baseline.csv"].rows)} \ {""}
    ELSE {}

\* C28: the CenterSummary row of each scanned directory reports the center
\* codes of that directory's own patients_baseline file, and the directory
\* path when the directory contributed no valid patients file.
C28_CenterSummaryOwnCodes ==
    /\ Len(qc_center_summary) = Len(ScannedDirs)
    /\ \A k \in 1..Len(ScannedDirs) :
          LET d == ScannedDirs[k]
              label == qc_center_summary[k].center_code
          IN  /\ qc_center_summary[k].directory = d.path
              /\ IF OwnCenterCodes(d) # {}
                 THEN {label[i] : i \in 1..Len(label)} = OwnCenterCodes(d)
                 ELSE label = <<d.path>>

SecondRun == previous # <<>>

\* the rows of file f of the first run's output
PreviousRows(f) == IF f \in DOMAIN previous THEN Rows(previous[f]) ELSE {}

\* C30: merge_all run on the one directory that holds the output of a
\* previous merge_all yields for every table the same set of rows as that
\* output, and reports no duplicates.
C30_MergeIdempotent ==
    SecondRun /\ Merged =>
        /\ \A n \in 1..Len(TABLES) :
              Rows(MergedRows(TABLES[n].name)) = PreviousRows(TABLES[n].file)
        /\ qc_duplicates = <<>>

\* the key columns of the first run's output are all numeric or all text
UniformFirstRun ==
    SecondRun =>
        \A f \in {"patients_baseline.csv", "visits_long.csv"} :
            f \in DOMAIN previous =>
                \A c \in {"center_code", "patient_code"} :
                    \/ \A i \in 1..Len(previous[f]) :
                          previous[f][i][c] \in {"101", "102", ""}
                    \/ \A i \in 1..Len(previous[f]) :
                          previous[f][i][c] \notin {"101", "102"}

UniformFirstC30 == UniformFirstRun => C30_MergeIdempotent

\* C29: when merge_all has written a non-empty patients table and a non-empty
\* visits table, the load of run_analysis on the output directory raises no
\* error, also when no center supplied labs, meds or variants.
C29_MergedOutputLoads ==
    pc \in {"aborted", "normalized"}
    /\ "patients_baseline.csv" \in DOMAIN written
    /\ "visits_long.csv" \in DOMAIN written
        => error = ""

-----------------------------------------------------------------------------
(* Properties of the whole run: merge_all, then run_analysis *)

EventsMerged == pc = "events"

\* the event rows of the center directories, as the files hold them
InputEvents ==
    UNION {Rows(center_dirs[n].files["events_long.csv"].rows) :
             n \in {m \in 1..Len(center_dirs) :
                      "events_long.csv" \in DOMAIN center_dirs[m].files}}

\* the day of the earliest input event of the patient and type of event r
EarliestInput(r) ==
    Min({to_dt(read_cell(x.event_date)) :
           x \in {y \in InputEvents : /\ y.center_code = r.center_code
                                      /\ y.patient_code = r.patient_code
                                      /\ y.event_type = r.event_type}})

\* C23: for every patient of the endpoint table and every event type recorded
\* for the patient in the input of the centers, manual_<event_type> holds the
\* earliest event_date among all input events of the patient of that type.
C23_ManualEventsEarliest ==
    EventsMerged /\ center_dirs # <<>> =>
        \A e \in Rows(egfr_endpoints) : \A r \in InputEvents :
            r.center_code = e.center_code /\ r.patient_code = e.patient_code =>
                /\ ("manual_" \o r.event_type) \in DOMAIN e
                /\ e["manual_" \o r.event_type] = EarliestInput(r)

\* the same, for inputs where no patient has two events of one type
OneEventPerType ==
    \A r, x \in InputEvents :
        /\ x.center_code = r.center_code
        /\ x.patient_code = r.patient_code
        /\ x.event_type = r.event_type
        => x.event_date = r.event_date
C23_SingleEvents == OneEventPerType => C23_ManualEventsEarliest

Loaded ==
    pc \in {"aborted", "normalized", "anchored", "timeline", "outcomes", "decline", "events"}

\* a required file, or a key column of a required table, is absent from the
\* directory run_analysis reads
FatalInput ==
    \E f \in {"patients_baseline.csv", "visits_long.csv", "labs_long.csv",
              "meds_long.csv", "variants_long.csv"} :
        \/ f \notin DOMAIN written
        \/ \E c \in {"center_code", "module", "patient_code"} : c \notin DOMAIN written[f][1]

\* C21: the run aborts exactly when a required input file or one of the
\* columns center_code / module / patient_code of a required table is absent,
\* and then at load time; no per-patient data condition and no absent optional
\* table or column ends it.
C21_AbortsOnlyAtLoad ==
    Loaded => (pc = "aborted" <=> FatalInput)

\* the same, for directories whose patients have a positive creatinine or
\* none, whose date columns are present and that hold a visit a year after
\* the baseline
DatesAndCreatinine ==
    /\ "patients_baseline.csv" \in DOMAIN written
    /\ "visits_long.csv" \in DOMAIN written
    => /\ "visit_date" \in DOMAIN written["visits_long.csv"][1]
       /\ \E i \in 1..Len(written["visits_long.csv"]) :
             written["visits_long.csv"][i].visit_date = "2021-01-01"
       /\ \A i \in 1..Len(written["patients_baseline.csv"]) :
             LET r == written["patients_baseline.csv"][i]
             IN  /\ "baseline_date" \in DOMAIN r
                 /\ "baseline_scr" \in DOMAIN r => r.baseline_scr # "0"
C21_Otherwise == DatesAndCreatinine => C21_AbortsOnlyAtLoad

-----------------------------------------------------------------------------
(* Properties of the 12-month outcomes *)

OutcomesDone == pc = "outcomes"

\* the visits of the timeline of patient o in the window of 270 to 450 days
WindowVisits(o) ==
    {i \in 1..Len(v2) : /\ v2[i].center_code = o.center_code
                        /\ v2[i].patient_code = o.patient_code
                        /\ v2[i].days_from_baseline >= 270
                        /\ v2[i].days_from_baseline <= 450}

\* the visits of the window that no other visit of the window is closer to
\* day 365 than
ClosestVisits(o) ==
    {i \in WindowVisits(o) :
        \A j \in WindowVisits(o) :
            Abs(v2[i].days_from_baseline - 365) <= Abs(v2[j].days_from_baseline - 365)}

\* C27: every anchored patient has one outcome row; its visit_12m_date,
\* egfr_12m and upcr_12m are the fields of one single visit, a visit of the
\* window closest to day 365, a field missing at that visit being null; they
\* are null when the patient has no visit in the window.
C27_OutcomeFromOneVisit ==
    OutcomesDone =>
        /\ Len(outcomes) = Len(anchor(patients))
        /\ \A o \in Rows(outcomes) :
              IF WindowVisits(o) = {}
              THEN o.visit_12m_date = NaT /\ o.egfr_12m = NaN /\ o.upcr_12m = NaN
              ELSE \E i \in ClosestVisits(o) :
                       /\ o.visit_12m_date = v2[i].visit_date
                       /\ o.egfr_12m = v2[i].egfr
                       /\ o.upcr_12m = v2[i].upcr

\* the same, for timelines whose window visits have all their values
WindowComplete ==
    \A i \in 1..Len(v2) :
        v2[i].days_from_baseline >= 270 /\ v2[i].days_from_baseline <= 450
            => v2[i].egfr # NaN /\ v2[i].upcr # NaN
C27_CompleteVisits == WindowComplete => C27_OutcomeFromOneVisit

-----------------------------------------------------------------------------
(* Determinism *)

\* C22: the output tables are determined by the input tables alone: the slope
\* rows of a run are the rows that the same timeline gives whether or not the
\* import of statsmodels succeeded, so that two runs on identical input
\* produce identical output.
C22_OutputsFromInputsOnly ==
    LmeDone =>
        \A has_statsmodels \in BOOLEAN :
            slope_results = lme_rows(lme_data(v2), has_statsmodels, fit_raises)

\* the same, for timelines with fewer than MinObs qualifying rows
C22_SmallTimelines == Len(lme_data(v2)) < MinObs => C22_OutputsFromInputsOnly

====
